---- MODULE Spec2Model ----
(***************************************************************************)
(* Markov-chain Monte Carlo drivers of src/utils/montecarlo.py and the     *)
(* Hamiltonian kernels of src/utils/utils.py.                              *)
(*                                                                         *)
(* Numbers.  Couplings are integers, so energies are integers (the sum     *)
(* over a symmetric table is even and "/ 2" is exact).  Logarithms are     *)
(* counted in units of ln 2: beta = b stands for b*ln 2, so that           *)
(* exp(-beta*E) = 2^(-b*E), and a log-density lnq = n stands for q = 2^n.  *)
(* A float that may be non-finite is a record [tag, val] (Fin, NaN, PInf,  *)
(* NInf).  A uniform draw U in [0,1) is u/UDen with u in 0..UDen-1.        *)
(*                                                                         *)
(* np.random is the process-global generator `rng`: every draw reads the   *)
(* state and advances it, np.random.seed(seed) overwrites it.              *)
(***************************************************************************)
EXTENDS Integers, Sequences, FiniteSets, TLC

VARIABLES
    args,       \* the arguments of the running call (fixed during a run)
    proposals,  \* the prefetched (sample, log_prob) list, as far as it was read
    pc,         \* "entry", "loop", "done", "crashed", "hung"
    rng,        \* state of the process-global np.random generator
    loc,        \* the local variables of the running driver
    last,       \* what the last loop iteration did (trace of the step)
    run,        \* 1: first call, 2: second call with the same arguments
    first       \* what the first call returned

vars == <<args, proposals, pc, rng, loc, last, run, first>>

----------------------------------------------------------------------------
(* Bounds of the model *)

MaxSteps == 4
MaxSeed == 3
RngMod == 16
UDen == 4

----------------------------------------------------------------------------
(* Arithmetic helpers *)

RECURSIVE Pow2(_)
Pow2(n) == IF n <= 0 THEN 1 ELSE 2 * Pow2(n - 1)

RECURSIVE SumFn(_, _)
SumFn(f, n) == IF n = 0 THEN 0 ELSE SumFn(f, n - 1) + f[n - 1]

Abs(x) == IF x < 0 THEN -x ELSE x

\* a Python list / numpy row written as a 0-based function
ZB(seq) == [i \in 0..(Len(seq) - 1) |-> seq[i + 1]]

(* floats that may be non-finite *)
Fin(n) == [tag |-> "fin", val |-> n]
NaN == [tag |-> "nan", val |-> 0]
PInf == [tag |-> "pinf", val |-> 0]
NInf == [tag |-> "ninf", val |-> 0]

isfinite(x) == x.tag = "fin"
isnan(x) == x.tag = "nan"

XNeg(x) ==
    CASE x.tag = "fin" -> Fin(-x.val)
      [] x.tag = "pinf" -> NInf
      [] x.tag = "ninf" -> PInf
      [] OTHER -> NaN

XAdd(x, y) ==
    CASE x.tag = "nan" \/ y.tag = "nan" -> NaN
      [] x.tag = "fin" /\ y.tag = "fin" -> Fin(x.val + y.val)
      [] x.tag = "fin" -> y
      [] y.tag = "fin" -> x
      [] x.tag = y.tag -> x
      [] OTHER -> NaN

XSub(x, y) == XAdd(x, XNeg(y))

\* U < 2^e for U = u/UDen
LessPow2(u, e) == IF e >= 0 THEN TRUE ELSE u * Pow2(-e) < UDen

----------------------------------------------------------------------------
(* The process-global generator np.random *)

NextRng(r) == (5 * r + 3) % RngMod

\* np.random.seed(seed)
SeedState(seed) == (3 * seed + 1) % RngMod

\* np.random.randint(0, n) read off state r
Randint(r, n) == (r * n) \div RngMod

\* np.random.ranf() / random_sample() / uniform() read off state r: u/UDen
Ranf(r) == (r * UDen) \div RngMod

RECURSIVE RngAfter(_, _)
RngAfter(r, n) == IF n = 0 THEN r ELSE RngAfter(NextRng(r), n - 1)

\* 2 * np.random.randint(2, size=(spins)) - 1.0
RandomSample(r, spins) ==
    [i \in 0..(spins - 1) |-> 2 * Randint(RngAfter(r, i), 2) - 1]

----------------------------------------------------------------------------
(* Couplings tables: what Adjacency.get_neighbours returns for a 2x2       *)
(* lattice (sites 0 1 / 2 3): per-site rows of neighbour indices and       *)
(* coupling values, zero-padded to a common width.                         *)

\* open boundaries, mixed signs: J01 = 1, J02 = -1, J13 = 1, J23 = -1
OpenGlass ==
    [neighbours |-> ZB(<< ZB(<<1, 2>>), ZB(<<0, 3>>), ZB(<<0, 3>>), ZB(<<1, 2>>) >>),
     couplings  |-> ZB(<< ZB(<<1, -1>>), ZB(<<1, 1>>), ZB(<<-1, -1>>), ZB(<<1, -1>>) >>)]

\* open boundaries with the bond 2-3 missing: rows 2 and 3 are padded
OpenPadded ==
    [neighbours |-> ZB(<< ZB(<<1, 2>>), ZB(<<0, 3>>), ZB(<<0, 0>>), ZB(<<1, 0>>) >>),
     couplings  |-> ZB(<< ZB(<<-1, 1>>), ZB(<<-1, 1>>), ZB(<<1, 0>>), ZB(<<1, 0>>) >>)]

\* periodic boundaries, all J = 1: right, left, down, up
TorusFerro ==
    [neighbours |-> ZB(<< ZB(<<1, 1, 2, 2>>), ZB(<<0, 0, 3, 3>>),
                          ZB(<<3, 3, 0, 0>>), ZB(<<2, 2, 1, 1>>) >>),
     couplings  |-> ZB(<< ZB(<<1, 1, 1, 1>>), ZB(<<1, 1, 1, 1>>),
                          ZB(<<1, 1, 1, 1>>), ZB(<<1, 1, 1, 1>>) >>)]

CouplingsFiles == {"open_glass", "open_padded", "torus_ferro"}

Adjacency(couplings_path) ==
    CASE couplings_path = "open_glass" -> OpenGlass
      [] couplings_path = "open_padded" -> OpenPadded
      [] OTHER -> TorusFerro

\* np.sum(couplings != 0, axis=-1)
CountNonZero(row) == Cardinality({j \in DOMAIN row : row[j] # 0})

get_couplings(couplings_path) ==
    LET adjacency == Adjacency(couplings_path)
    IN  [neighbours |-> adjacency.neighbours,
         couplings |-> adjacency.couplings,
         len_neighbours |-> [i \in DOMAIN adjacency.couplings |->
                                CountNonZero(adjacency.couplings[i])]]

----------------------------------------------------------------------------
(* Hamiltonian kernels *)

compute_energy_nohalf(sample, neighbours, couplings, len_neighbours) ==
    SumFn([i \in DOMAIN neighbours |->
              SumFn([j \in 0..(len_neighbours[i] - 1) |->
                        sample[i] * (sample[neighbours[i][j]] * couplings[i][j])],
                    len_neighbours[i])],
          Cardinality(DOMAIN neighbours))

compute_energy_fullrow(sample, neighbours, couplings, len_neighbours) ==
    SumFn([i \in DOMAIN neighbours |->
              SumFn([j \in DOMAIN neighbours[i] |->
                        sample[i] * (sample[neighbours[i][j]] * couplings[i][j])],
                    Cardinality(DOMAIN neighbours[i]))],
          Cardinality(DOMAIN neighbours)) \div 2

compute_energy(sample, neighbours, couplings, len_neighbours) ==
    SumFn([i \in DOMAIN neighbours |->
              SumFn([j \in 0..(len_neighbours[i] - 1) |->
                        sample[i] * (sample[neighbours[i][j]] * couplings[i][j])],
                    len_neighbours[i])],
          Cardinality(DOMAIN neighbours)) \div 2

compute_delta_h_nosign(num_spin, sample, neighbours, couplings, len_neighbours) ==
    2 * SumFn([j \in 0..(len_neighbours - 1) |->
                  sample[num_spin] * (sample[neighbours[j]] * couplings[j])],
              len_neighbours)

compute_delta_h(num_spin, sample, neighbours, couplings, len_neighbours) ==
    2 * SumFn([j \in 0..(len_neighbours - 1) |->
                  -sample[num_spin] * (sample[neighbours[j]] * couplings[j])],
              len_neighbours)

\* -beta * eng
compute_boltz_prob(eng, beta, num_spin) == -beta * eng

\* numpy astype("int8") of an integral value
AsInt8(x) == ((x + 128) % 256) - 128

Flip(sample, k) == [sample EXCEPT ![k] = -sample[k]]

----------------------------------------------------------------------------
(* Call arguments *)

Betas == {1, 2}

LocalArgs ==
    [driver : {"local"}, spins : {4}, beta : Betas, steps : 1..(MaxSteps - 1),
     couplings_path : CouplingsFiles, sweeps : {0, 1}, burnt : {0, 1},
     seed : 0..MaxSeed]

\* total number of loop steps of the neural and hybrid drivers: steps *= save_every
TotalSteps(a) == a.steps * a.save_every

\* the (steps, save_every) of a call: at most MaxSteps loop steps in all
StepsArgs(a) == a.steps * a.save_every <= MaxSteps

NeuralArgs ==
    {a \in [driver : {"neural"}, beta : {1}, steps : 1..MaxSteps,
            couplings_path : {"open_glass", "torus_ferro"}, save_every : {1, 2}] :
        StepsArgs(a)}

\* prob_single is counted in halves: 0, 1, 2 stand for 0.0, 0.5, 1.0
HybridArgs ==
    {a \in [driver : {"hybrid"}, beta : {1}, steps : 1..MaxSteps,
            couplings_path : {"open_glass"}, save_every : {1, 2},
            prob_single : {0, 1, 2}, model : {"made_a", "made_b"}] :
        StepsArgs(a) /\ (a.prob_single = 0 => a.model = "made_a")}

SeqArgs ==
    {a \in [driver : {"seq"}, beta : {1}, steps : 1..MaxSteps,
            couplings_path : {"open_glass"}, save_every : {1, 2},
            len_seq_single : {1, 2}, model : {"made_a", "made_b"}] :
        StepsArgs(a)}

\* line 955: the first 10 steps only mirror the single-spin-flip chain
WarmUp == 10

ExchangeArgs ==
    {a \in [driver : {"exchange"}, spins : {4}, beta : {1},
            steps : 1..(WarmUp + MaxSteps), path : {"rbm"},
            couplings_path : {"open_glass"}, save_every : {1, 2, 3}] :
        /\ a.steps * a.save_every > WarmUp
        /\ a.steps * a.save_every <= WarmUp + MaxSteps - 2}

\* a row of the prefetched arrays (proposals[i], log_probs[i])
Proposal(sample, log_prob) == [sample |-> sample, log_prob |-> log_prob]

AllUp == ZB(<<1, 1, 1, 1>>)
OneDown == ZB(<<-1, 1, 1, 1>>)
TwoDown == ZB(<<1, -1, -1, 1>>)

\* what the generator may have produced at any index
Candidates ==
    {Proposal(AllUp, Fin(-1)), Proposal(OneDown, Fin(-3)), Proposal(TwoDown, Fin(-2)),
     Proposal(OneDown, NInf), Proposal(TwoDown, NaN)}

\* the neural driver is given steps - save_every rows, the sequential one a row
\* less than it asks for
NumProposals_short(a) ==
    CASE a.driver = "neural" -> TotalSteps(a) - a.save_every
      [] a.driver = "seq" ->
            (TotalSteps(a) + a.len_seq_single - 1) \div a.len_seq_single
      [] OTHER -> TotalSteps(a)

\* number of rows load_data returns: the number asked for
NumProposals(a) ==
    CASE a.driver = "neural" -> TotalSteps(a)
      [] a.driver = "hybrid" ->
            \* math.ceil(steps * (1.1 - prob_single)); in double arithmetic
            \* 1.1 - 0.5 and 1.1 - 1.0 lie just above 0.6 and 0.1
            IF a.prob_single = 0
            THEN (TotalSteps(a) * 11 + 9) \div 10
            ELSE (TotalSteps(a) * (11 - 5 * a.prob_single)) \div 10 + 1
      [] a.driver = "seq" ->
            \* math.ceil(steps / len_seq_single) + 1
            (TotalSteps(a) + a.len_seq_single - 1) \div a.len_seq_single + 1
      [] OTHER -> 0

\* proposals[i], log_probs[i]: the rows already read are fixed, a row read for
\* the first time is whatever the generator produced
ReadSet(i) == IF i < Len(proposals) THEN {proposals[i + 1]} ELSE Candidates
AfterRead(i, p) == IF i < Len(proposals) THEN proposals ELSE Append(proposals, p)

NoLast == [op |-> "none"]
NoFirst == [set |-> FALSE]

Init ==
    /\ \/ args \in LocalArgs
       \/ args \in NeuralArgs
       \/ args \in HybridArgs
       \/ args \in SeqArgs
       \/ args \in ExchangeArgs
    /\ proposals = << >>
    /\ pc = "entry"
    /\ rng \in 0..(RngMod - 1)
    /\ loc = [step |-> 0]
    /\ last = NoLast
    /\ run = 1
    /\ first = NoFirst

----------------------------------------------------------------------------
(* single_spin_flip *)

\* neighbours, couplings, len_neighbours of the running call
CouplingsOf == [path \in CouplingsFiles |-> get_couplings(path)]
Tbl == CouplingsOf[args.couplings_path]

\* lines 62-81: seed the generator, draw the start, compute its energy
LocalStart ==
    /\ pc = "entry"
    /\ args.driver = "local"
    /\ LET seeded == SeedState(args.seed)
           sample == RandomSample(seeded, args.spins)
       IN  /\ rng' = RngAfter(seeded, args.spins)
           /\ loc' = [sample |-> sample,
                      configs |-> << >>,
                      energies |-> << >>,
                      accepted |-> 0,
                      single_step |-> 0,
                      eng_now |-> compute_energy(sample, Tbl.neighbours,
                                                 Tbl.couplings, Tbl.len_neighbours),
                      skip_steps |-> IF args.sweeps = 0 THEN 1
                                     ELSE args.sweeps * args.spins,
                      step |-> 0,
                      inner |-> 0]
    /\ pc' = "loop"
    /\ last' = [op |-> "start"]
    /\ UNCHANGED <<args, proposals, run, first>>

\* line 92: deltah < 0.0 or np.random.ranf() < np.exp(-beta * deltah)
MetropolisAccept_uphill(deltah, u, beta) == deltah > 0 \/ LessPow2(u, beta * deltah)

MetropolisAccept(deltah, u, beta) == deltah < 0 \/ LessPow2(u, -beta * deltah)

\* line 92 for U uniform on [0, 1): the probability <<num, den>> that the flip
\* is accepted, 1 when deltah < 0 and min(1, exp(-beta * deltah)) otherwise
AcceptProb_always(deltah, beta) == <<1, 1>>

AcceptProb(deltah, beta) ==
    IF deltah < 0 THEN <<1, 1>> ELSE <<1, Pow2(beta * deltah)>>

\* lines 84-96: one attempt of the inner loop
LocalAttempt ==
    /\ pc = "loop"
    /\ args.driver = "local"
    /\ loc.step < args.steps + args.burnt
    /\ loc.inner < loc.skip_steps
    /\ LET k == Randint(rng, args.spins)
           r1 == NextRng(rng)
           deltah == compute_delta_h(k, loc.sample, Tbl.neighbours[k],
                                     Tbl.couplings[k], Tbl.len_neighbours[k])
           drew == ~(deltah < 0)
           u == Ranf(r1)
           accept == MetropolisAccept(deltah, u, args.beta)
       IN  IF k \notin DOMAIN Tbl.neighbours
           THEN \* neighbours[k] of a row the table does not have raises
                /\ rng' = r1
                /\ loc' = [loc EXCEPT !.single_step = @ + 1]
                /\ last' = [op |-> "attempt_error", k |-> k,
                            outcome |-> "IndexError"]
                /\ pc' = "crashed"
           ELSE /\ rng' = IF drew THEN NextRng(r1) ELSE r1
                /\ loc' = [loc EXCEPT
                             !.single_step = @ + 1,
                             !.inner = @ + 1,
                             !.sample = IF accept THEN Flip(@, k) ELSE @,
                             !.eng_now = IF accept THEN @ + deltah ELSE @,
                             !.accepted = IF accept THEN @ + 1 ELSE @]
                /\ last' = [op |-> "attempt", k |-> k, deltah |-> deltah,
                            drew |-> drew, u |-> u, accept |-> accept]
                /\ pc' = pc
    /\ UNCHANGED <<args, proposals, run, first>>

\* line 99: step > burnt - 1
AfterBurnIn_strict(step, burnt) == step > burnt

AfterBurnIn(step, burnt) == step > burnt - 1

\* lines 98-104: end of an outer iteration, save after the burn-in
LocalSave ==
    /\ pc = "loop"
    /\ args.driver = "local"
    /\ loc.step < args.steps + args.burnt
    /\ loc.inner = loc.skip_steps
    /\ LET save == AfterBurnIn(loc.step, args.burnt)
       IN  /\ loc' = [loc EXCEPT
                        !.energies = IF save THEN Append(@, loc.eng_now) ELSE @,
                        !.configs = IF save THEN Append(@, loc.sample) ELSE @,
                        !.step = @ + 1,
                        !.inner = 0]
           /\ last' = [op |-> "save", emitted |-> save]
    /\ UNCHANGED <<args, proposals, pc, rng, run, first>>

\* lines 111-129: the loop is over, return (configs, energies)
LocalReturn ==
    /\ pc = "loop"
    /\ args.driver = "local"
    /\ loc.step = args.steps + args.burnt
    /\ loc' = [loc EXCEPT
                 !.configs = [n \in DOMAIN @ |->
                                [i \in DOMAIN @[n] |-> AsInt8(@[n][i])]]]
    /\ pc' = "done"
    /\ last' = [op |-> "return"]
    /\ UNCHANGED <<args, proposals, rng, run, first>>

----------------------------------------------------------------------------
(* neural_mcmc *)

\* lines 219-224
NeuralLogRatio(accepted_log_prob, trial_log_prob, trial_boltz_log_prob, accepted_boltz_log_prob) ==
    XSub(XAdd(XSub(accepted_log_prob, trial_log_prob), Fin(trial_boltz_log_prob)),
         Fin(accepted_boltz_log_prob))

\* lines 229, 236-238: transition_prob >= 0.0 or np.log(U) < transition_prob
LogAccept_reversed(log_ratio, u) ==
    LET transition_prob == IF log_ratio > 0 THEN -log_ratio ELSE 0
    IN  transition_prob >= 0 \/ LessPow2(u, transition_prob)

LogAccept(log_ratio, u) ==
    LET transition_prob == IF log_ratio < 0 THEN log_ratio ELSE 0
    IN  transition_prob >= 0 \/ LessPow2(u, transition_prob)

\* lines 239-244: the trial becomes the accepted state
NeuralTake_nocount(l, trial_sample, trial_log_prob, trial_eng, trial_boltz_log_prob) ==
    [l EXCEPT !.len_log_prob_ratio = @ + 1,
              !.len_transition_prob = @ + 1,
              !.accepted_eng = trial_eng,
              !.accepted_log_prob = trial_log_prob,
              !.accepted_sample = trial_sample,
              !.accepted_boltz_log_prob = trial_boltz_log_prob,
              !.idx = @ + 1]

NeuralTake(l, trial_sample, trial_log_prob, trial_eng, trial_boltz_log_prob) ==
    [l EXCEPT !.len_log_prob_ratio = @ + 1,
              !.len_transition_prob = @ + 1,
              !.accepted_eng = trial_eng,
              !.accepted_log_prob = trial_log_prob,
              !.accepted_sample = trial_sample,
              !.accepted_boltz_log_prob = trial_boltz_log_prob,
              !.accepted = @ + 1,
              !.idx = @ + 1]

\* lines 249-250: save the accepted sample and its energy
NeuralSave(l) ==
    [l EXCEPT !.samples = Append(@, l.accepted_sample),
              !.energies = Append(@, l.accepted_eng)]

\* lines 160-199
NeuralStart ==
    /\ pc = "entry"
    /\ args.driver = "neural"
    /\ \E p \in ReadSet(0) :
          /\ proposals' = AfterRead(0, p)
          /\ IF ~isfinite(p.log_prob)
             THEN \* while not np.isfinite(accepted_log_prob) reads row 0 for ever
                  /\ pc' = "hung"
                  /\ loc' = loc
             ELSE /\ pc' = "loop"
                  /\ LET accepted_eng == compute_energy(p.sample, Tbl.neighbours,
                                                        Tbl.couplings,
                                                        Tbl.len_neighbours)
                     IN  loc' = [accepted_sample |-> p.sample,
                                 accepted_log_prob |-> p.log_prob,
                                 accepted_eng |-> accepted_eng,
                                 accepted_boltz_log_prob |->
                                     compute_boltz_prob(accepted_eng, args.beta, 4),
                                 energies |-> << >>,
                                 samples |-> << >>,
                                 len_transition_prob |-> 0,
                                 len_log_prob_ratio |-> 0,
                                 accepted |-> 0,
                                 idx |-> 0]
    /\ last' = [op |-> "start"]
    /\ UNCHANGED <<args, rng, run, first>>

\* lines 200-250: one iteration of the loop
NeuralIter ==
    /\ pc = "loop"
    /\ args.driver = "neural"
    /\ loc.idx < TotalSteps(args) - args.save_every
    /\ \E p \in ReadSet(loc.idx + 1) :
        LET trial_eng == compute_energy(p.sample, Tbl.neighbours, Tbl.couplings,
                                        Tbl.len_neighbours)
            trial_boltz_log_prob == compute_boltz_prob(trial_eng, args.beta, 4)
            ratio == NeuralLogRatio(loc.accepted_log_prob, p.log_prob,
                                    trial_boltz_log_prob, loc.accepted_boltz_log_prob)
            \* the checks that `continue` before log_prob_ratio.append
            early == ~isfinite(p.log_prob) \/ ~isfinite(Fin(trial_eng))
                         \/ ~isfinite(Fin(trial_boltz_log_prob))
            len_ratio == loc.len_log_prob_ratio + 1
            \* log_prob_ratio[idx] and transition_prob[idx] index lists that
            \* grew only in the iterations that got that far
            ratio_error == ~(loc.idx < len_ratio)
            late == ~isfinite(ratio)
            len_trans == loc.len_transition_prob + 1
            trans_error == ~(loc.idx < len_trans)
            drew == ratio.val < 0
            u == Ranf(rng)
            accept == LogAccept(ratio.val, u)
        IN  /\ proposals' = AfterRead(loc.idx + 1, p)
            /\ IF early
               THEN /\ loc' = [loc EXCEPT !.idx = @ + 1]
                    /\ last' = [op |-> "iter", outcome |-> "skip", trial |-> p]
                    /\ UNCHANGED <<pc, rng>>
               ELSE IF ratio_error
               THEN /\ loc' = [loc EXCEPT !.len_log_prob_ratio = len_ratio]
                    /\ last' = [op |-> "iter", outcome |-> "IndexError", trial |-> p]
                    /\ pc' = "crashed"
                    /\ UNCHANGED rng
               ELSE IF late
               THEN /\ loc' = [loc EXCEPT !.len_log_prob_ratio = len_ratio,
                                          !.idx = @ + 1]
                    /\ last' = [op |-> "iter", outcome |-> "skip", trial |-> p]
                    /\ UNCHANGED <<pc, rng>>
               ELSE IF trans_error
               THEN /\ loc' = [loc EXCEPT !.len_log_prob_ratio = len_ratio,
                                          !.len_transition_prob = len_trans]
                    /\ last' = [op |-> "iter", outcome |-> "IndexError", trial |-> p]
                    /\ pc' = "crashed"
                    /\ UNCHANGED rng
               ELSE /\ rng' = IF drew THEN NextRng(rng) ELSE rng
                    /\ loc' = NeuralSave(
                                 IF accept
                                 THEN NeuralTake(loc, p.sample, p.log_prob, trial_eng,
                                                 trial_boltz_log_prob)
                                 ELSE [loc EXCEPT !.len_log_prob_ratio = @ + 1,
                                                  !.len_transition_prob = @ + 1,
                                                  !.idx = @ + 1])
                    /\ last' = [op |-> "iter",
                                outcome |-> IF accept THEN "accept" ELSE "reject",
                                trial |-> p, drew |-> drew, u |-> u]
                    /\ pc' = pc
    /\ UNCHANGED <<args, run, first>>

\* samples[::save_every]
Stride(list, save_every) ==
    [n \in 1..((Len(list) + save_every - 1) \div save_every) |->
        list[(n - 1) * save_every + 1]]

\* lines 257-277: the loop is over, down-sample and return
NeuralReturn ==
    /\ pc = "loop"
    /\ args.driver = "neural"
    /\ loc.idx = TotalSteps(args) - args.save_every
    /\ IF Len(loc.energies) = 0
       THEN \* energies.min() of an empty array raises ValueError
            /\ pc' = "crashed"
            /\ loc' = loc
            /\ last' = [op |-> "return", outcome |-> "ValueError"]
       ELSE /\ pc' = "done"
            /\ loc' = [loc EXCEPT
                         !.samples = Stride([n \in DOMAIN @ |->
                                               [i \in DOMAIN @[n] |-> AsInt8(@[n][i])]],
                                            args.save_every),
                         !.energies = Stride(@, args.save_every)]
            /\ last' = [op |-> "return", outcome |-> "ok"]
    /\ UNCHANGED <<args, proposals, rng, run, first>>

----------------------------------------------------------------------------
(* The density oracle: Made.forward on a {0,1} vector *)

\* (sample + 1) / 2
ToBinary(sample) == [i \in DOMAIN sample |-> (sample[i] + 1) \div 2]

\* x * 2 - 1
ToSpin_same(x) == x

ToSpin(x) == [i \in DOMAIN x |-> x[i] * 2 - 1]

MadeForward(model, x) ==
    IF model = "made_a"
    THEN Fin(-1 - Cardinality({i \in DOMAIN x : x[i] = 0}))
    ELSE CASE x[0] = 0 -> NInf
           [] x[3] = 0 -> NaN
           [] OTHER -> Fin(-2)

----------------------------------------------------------------------------
(* Logarithms of rationals: [tag, num, den] stands for ln(num/den) *)

LnRat(num, den) == [tag |-> "fin", num |-> num, den |-> den]
LnBad(tag) == [tag |-> tag, num |-> 0, den |-> 1]

\* a float counted in units of ln 2, as the logarithm of a rational
AsLn(x) ==
    IF x.tag # "fin" THEN LnBad(x.tag)
    ELSE IF x.val >= 0 THEN LnRat(Pow2(x.val), 1) ELSE LnRat(1, Pow2(-x.val))

\* a + b and a - b of two finite logarithms
LnAdd(a, b) == LnRat(a.num * b.num, a.den * b.den)
LnSub(a, b) == LnRat(a.num * b.den, a.den * b.num)

\* ln(num/den) >= 0
LnNonNeg(a) == a.num >= a.den

\* np.log(U) < ln(num/den) for U = u/UDen
LnAbove(a, u) == u * a.den < UDen * a.num

----------------------------------------------------------------------------
(* hybrid_mcmc *)

\* lines 433-436, 441-444:
\* np.log(prob_single / spins + (1 - prob_single) * np.exp(log_prob))
MixLog(prob_single, spins, log_prob) ==
    CASE log_prob.tag = "nan" -> LnBad("nan")
      [] log_prob.tag = "pinf" -> IF prob_single = 2 THEN LnBad("nan") ELSE LnBad("pinf")
      [] log_prob.tag = "ninf" ->
            IF prob_single = 0 THEN LnBad("ninf") ELSE LnRat(prob_single, 2 * spins)
      [] OTHER ->
            IF log_prob.val <= 0
            THEN LnRat(prob_single * Pow2(-log_prob.val) + (2 - prob_single) * spins,
                       2 * spins * Pow2(-log_prob.val))
            ELSE LnRat(prob_single + (2 - prob_single) * spins * Pow2(log_prob.val),
                       2 * spins)

\* line 430: np.sum(np.abs(trial_sample - accepted_sample)) == 2
OneSpinApart(trial_sample, accepted_sample) ==
    SumFn([i \in DOMAIN trial_sample |-> Abs(trial_sample[i] - accepted_sample[i])],
          Cardinality(DOMAIN trial_sample)) = 2

\* the two mixture terms exchanged
MixedLogRatio_swapped(trial_boltz_log_prob, accepted_boltz_log_prob, log_prob_reverse_moving, log_prob_moving) ==
    LnSub(LnAdd(AsLn(Fin(trial_boltz_log_prob - accepted_boltz_log_prob)),
                log_prob_moving),
          log_prob_reverse_moving)

\* lines 450-455
MixedLogRatio(trial_boltz_log_prob, accepted_boltz_log_prob, log_prob_reverse_moving, log_prob_moving) ==
    LnSub(LnAdd(AsLn(Fin(trial_boltz_log_prob - accepted_boltz_log_prob)),
                log_prob_reverse_moving),
          log_prob_moving)

\* lines 457-462
PlainLogRatio(trial_boltz_log_prob, accepted_boltz_log_prob, accepted_log_prob, trial_log_prob) ==
    XSub(XAdd(Fin(trial_boltz_log_prob - accepted_boltz_log_prob), accepted_log_prob),
         trial_log_prob)

\* lines 467-471: transition_prob >= 0.0 or np.log(U) < transition_prob
LnAccept(log_ratio, u) == LnNonNeg(log_ratio) \/ LnAbove(log_ratio, u)

\* line 370: np.random.uniform() <= (1 - prob_single)
TakeNeural(u, prob_single) == 2 * u <= (2 - prob_single) * UDen

\* lines 314-367
HybridStart ==
    /\ pc = "entry"
    /\ args.driver = "hybrid"
    /\ \E p \in ReadSet(0) :
          /\ proposals' = AfterRead(0, p)
          /\ IF isnan(p.log_prob)
             THEN \* while np.isnan(accepted_log_prob) reads row 0 for ever
                  /\ pc' = "hung"
                  /\ loc' = loc
             ELSE /\ pc' = "loop"
                  /\ LET accepted_eng == compute_energy(p.sample, Tbl.neighbours,
                                                        Tbl.couplings,
                                                        Tbl.len_neighbours)
                     IN  loc' = [accepted_sample |-> p.sample,
                                 accepted_log_prob |-> p.log_prob,
                                 accepted_eng |-> accepted_eng,
                                 accepted_boltz_log_prob |->
                                     compute_boltz_prob(accepted_eng, args.beta, 4),
                                 energies |-> << >>,
                                 samples |-> << >>,
                                 len_transition_prob |-> 0,
                                 len_log_prob_ratio |-> 0,
                                 accepted |-> 1,
                                 accepted_single |-> 0,
                                 accepted_neural |-> 1,
                                 type_accepted |-> "neural",
                                 neural_after_single |-> 0,
                                 steps_neural |-> 1,
                                 steps_single |-> 0,
                                 step |-> 0,
                                 broke |-> FALSE]
    /\ last' = [op |-> "start"]
    /\ UNCHANGED <<args, rng, run, first>>

\* every accepted neural proposal is counted as following a single spin flip
HybridTake_anyneural(l, neural, trial_sample, trial_log_prob, trial_eng, trial_boltz_log_prob) ==
    [l EXCEPT
       !.accepted_eng = trial_eng,
       !.accepted_log_prob = trial_log_prob,
       !.accepted_sample = trial_sample,
       !.accepted_boltz_log_prob = trial_boltz_log_prob,
       !.neural_after_single = IF neural THEN @ + 1 ELSE @,
       !.type_accepted = IF neural THEN "neural" ELSE "single",
       !.accepted_neural = IF neural THEN @ + 1 ELSE @,
       !.accepted_single = IF neural THEN @ ELSE @ + 1,
       !.accepted = @ + 1]

\* lines 472-486: the trial becomes the accepted state
HybridTake(l, neural, trial_sample, trial_log_prob, trial_eng, trial_boltz_log_prob) ==
    [l EXCEPT
       !.accepted_eng = trial_eng,
       !.accepted_log_prob = trial_log_prob,
       !.accepted_sample = trial_sample,
       !.accepted_boltz_log_prob = trial_boltz_log_prob,
       !.neural_after_single = IF l.type_accepted = "single" /\ neural
                               THEN @ + 1 ELSE @,
       !.type_accepted = IF neural THEN "neural" ELSE "single",
       !.accepted_neural = IF neural THEN @ + 1 ELSE @,
       !.accepted_single = IF neural THEN @ ELSE @ + 1,
       !.accepted = @ + 1]

\* the sample is appended, the energy is not
HybridSave_noenergy(l) == [l EXCEPT !.samples = Append(@, l.accepted_sample)]

\* lines 491-493
HybridSave(l) ==
    [l EXCEPT !.samples = Append(@, l.accepted_sample),
              !.energies = Append(@, l.accepted_eng)]

MAX_STEPS == 10000000

\* the limit a call runs under: MAX_STEPS, or the scaled-down limit of the calls
\* that are made to reach it
StepLimit(a) == IF "max_steps" \in DOMAIN a THEN a.max_steps ELSE MAX_STEPS

\* lines 430-507: from the Hamming test to the end of the iteration, for a trial
\* whose log_prob, energy and Boltzmann weight are finite; l is loc with the
\* proposal counted, r the generator after the draws of the proposal
HybridDecide(l, r, neural, trial_sample, trial_log_prob, trial_eng, tr) ==
    LET trial_boltz_log_prob == compute_boltz_prob(trial_eng, args.beta, 4)
        apart == OneSpinApart(trial_sample, l.accepted_sample)
        log_prob_reverse_moving == MixLog(args.prob_single, 4, l.accepted_log_prob)
        log_prob_moving == MixLog(args.prob_single, 4, trial_log_prob)
        mix_bad == apart /\ (log_prob_reverse_moving.tag # "fin"
                               \/ log_prob_moving.tag # "fin")
        ratio == IF apart
                 THEN MixedLogRatio(trial_boltz_log_prob, l.accepted_boltz_log_prob,
                                    log_prob_reverse_moving, log_prob_moving)
                 ELSE AsLn(PlainLogRatio(trial_boltz_log_prob,
                                         l.accepted_boltz_log_prob,
                                         l.accepted_log_prob, trial_log_prob))
        l1 == [l EXCEPT !.len_log_prob_ratio = @ + 1]
        ratio_error == ~(l.step < l1.len_log_prob_ratio)
        l2 == [l1 EXCEPT !.len_transition_prob = @ + 1]
        trans_error == ~(l.step < l2.len_transition_prob)
        drew == ~LnNonNeg(ratio)
        u == Ranf(r)
        accept == LnAccept(ratio, u)
        l3 == IF accept
              THEN HybridTake(l2, neural, trial_sample, trial_log_prob, trial_eng,
                              trial_boltz_log_prob)
              ELSE l2
    IN  IF mix_bad
        THEN [loc |-> [l EXCEPT !.step = @ + 1], rng |-> r, pc |-> "loop",
              last |-> [tr EXCEPT !.outcome = "skip"]]
        ELSE IF ratio_error
        THEN [loc |-> l1, rng |-> r, pc |-> "crashed",
              last |-> [tr EXCEPT !.outcome = "IndexError"]]
        ELSE IF ratio.tag # "fin"
        THEN [loc |-> [l1 EXCEPT !.step = @ + 1], rng |-> r, pc |-> "loop",
              last |-> [tr EXCEPT !.outcome = "skip"]]
        ELSE IF trans_error
        THEN [loc |-> l2, rng |-> r, pc |-> "crashed",
              last |-> [tr EXCEPT !.outcome = "IndexError"]]
        ELSE [loc |-> [HybridSave(l3) EXCEPT !.step = @ + 1,
                                             !.broke = l.step > StepLimit(args)],
              rng |-> IF drew THEN NextRng(r) ELSE r,
              pc |-> "loop",
              last |-> [tr EXCEPT !.outcome = IF accept THEN "accept" ELSE "reject",
                                  !.apart = apart, !.ratio = ratio,
                                  !.drew = drew, !.u = u]]

HybridTrace(neural, trial_sample, trial_log_prob, trial_eng) ==
    [op |-> "iter", outcome |-> "skip", neural |-> neural,
     trial_sample |-> trial_sample, trial_log_prob |-> trial_log_prob,
     trial_eng |-> trial_eng, k |-> 0, apart |-> FALSE, ratio |-> LnBad("nan"),
     drew |-> FALSE, u |-> 0]

\* lines 371-393: the next row of the prefetched arrays is the trial
HybridNeural(r, p) ==
    LET trial_eng == compute_energy(p.sample, Tbl.neighbours, Tbl.couplings,
                                    Tbl.len_neighbours)
        tr == HybridTrace(TRUE, p.sample, p.log_prob, trial_eng)
        l == [loc EXCEPT !.steps_neural = @ + 1]
    IN  IF ~isfinite(p.log_prob)
        THEN [loc |-> [loc EXCEPT !.step = @ + 1], rng |-> r, pc |-> "loop", last |-> tr]
        ELSE IF ~isfinite(Fin(trial_eng))
                  \/ ~isfinite(Fin(compute_boltz_prob(trial_eng, args.beta, 4)))
        THEN [loc |-> [l EXCEPT !.step = @ + 1], rng |-> r, pc |-> "loop", last |-> tr]
        ELSE HybridDecide(l, r, TRUE, p.sample, p.log_prob, trial_eng, tr)

\* lines 395-428: a single spin flip of the accepted sample is the trial
HybridSingle(r) ==
    LET k == Randint(r, 4)
        trial_sample == Flip(loc.accepted_sample, k)
        deltah == compute_delta_h(k, loc.accepted_sample, Tbl.neighbours[k],
                                  Tbl.couplings[k], Tbl.len_neighbours[k])
        trial_eng == loc.accepted_eng + deltah
        trial_log_prob == MadeForward(args.model, ToBinary(trial_sample))
        tr == [HybridTrace(FALSE, trial_sample, trial_log_prob, trial_eng)
                 EXCEPT !.k = k]
        l == [loc EXCEPT !.steps_single = @ + 1]
    IN  IF ~isfinite(Fin(trial_eng)) \/ ~isfinite(trial_log_prob)
             \/ ~isfinite(Fin(compute_boltz_prob(trial_eng, args.beta, 4)))
        THEN [loc |-> [l EXCEPT !.step = @ + 1], rng |-> NextRng(r), pc |-> "loop",
              last |-> tr]
        ELSE HybridDecide(l, NextRng(r), FALSE, trial_sample, trial_log_prob,
                          trial_eng, tr)

\* lines 368-507: one iteration of the loop
HybridIter ==
    /\ pc = "loop"
    /\ args.driver = "hybrid"
    /\ loc.step < TotalSteps(args) - 1
    /\ ~loc.broke
    /\ IF TakeNeural(Ranf(rng), args.prob_single)
       THEN IF ~(loc.steps_neural < NumProposals(args))
            THEN \* proposals[steps_neural] is past the end of the array
                 /\ pc' = "crashed"
                 /\ rng' = NextRng(rng)
                 /\ last' = [HybridTrace(TRUE, loc.accepted_sample, NaN, 0)
                               EXCEPT !.outcome = "IndexError_proposals"]
                 /\ UNCHANGED <<loc, proposals>>
            ELSE \E p \in ReadSet(loc.steps_neural) :
                   LET res == HybridNeural(NextRng(rng), p)
                   IN  /\ proposals' = AfterRead(loc.steps_neural, p)
                       /\ loc' = res.loc
                       /\ rng' = res.rng
                       /\ pc' = res.pc
                       /\ last' = res.last
       ELSE LET res == HybridSingle(NextRng(rng))
            IN  /\ loc' = res.loc
                /\ rng' = res.rng
                /\ pc' = res.pc
                /\ last' = res.last
                /\ UNCHANGED proposals
    /\ UNCHANGED <<args, run, first>>

\* lines 509-536: the loop is over, down-sample and return
HybridReturn ==
    /\ pc = "loop"
    /\ args.driver = "hybrid"
    /\ loc.step = TotalSteps(args) - 1 \/ loc.broke
    /\ IF Len(loc.energies) = 0
       THEN \* energies.min() of an empty array raises ValueError; `step` is
            \* unbound (NameError) when the loop had no iteration at all
            /\ pc' = "crashed"
            /\ loc' = loc
            /\ last' = [op |-> "return",
                        outcome |-> IF TotalSteps(args) = 1 THEN "NameError"
                                    ELSE "ValueError"]
       ELSE /\ pc' = "done"
            /\ loc' = [loc EXCEPT
                         !.samples = Stride([n \in DOMAIN @ |->
                                               [i \in DOMAIN @[n] |-> AsInt8(@[n][i])]],
                                            args.save_every),
                         !.energies = Stride(@, args.save_every)]
            /\ last' = [op |-> "return", outcome |-> "ok"]
    /\ UNCHANGED <<args, proposals, rng, run, first>>

----------------------------------------------------------------------------
(* seq_hybrid_mcmc *)

\* lines 672-677
SeqLogRatio(trial_boltz_log_prob, accepted_boltz_log_prob, accepted_log_prob, trial_log_prob) ==
    XSub(XAdd(Fin(trial_boltz_log_prob - accepted_boltz_log_prob), accepted_log_prob),
         trial_log_prob)

\* line 709: Python's min(0.0, x) is x when x < 0.0 and 0.0 otherwise
PyMinZero(x) ==
    IF x.tag = "ninf" \/ (x.tag = "fin" /\ x.val < 0) THEN x ELSE Fin(0)

\* lines 711-713: transition_prob >= 0.0 or np.log(U) < transition_prob
SeqAccept(transition_prob, u) ==
    \/ (transition_prob.tag = "fin" /\ transition_prob.val >= 0)
    \/ (transition_prob.tag = "fin" /\ LessPow2(u, transition_prob.val))

\* lines 574-627
SeqStart ==
    /\ pc = "entry"
    /\ args.driver = "seq"
    /\ \E p \in ReadSet(0) :
          /\ proposals' = AfterRead(0, p)
          /\ IF isnan(p.log_prob)
             THEN \* while np.isnan(accepted_log_prob) reads row 0 for ever
                  /\ pc' = "hung"
                  /\ loc' = loc
             ELSE /\ pc' = "loop"
                  /\ LET accepted_eng == compute_energy(p.sample, Tbl.neighbours,
                                                        Tbl.couplings,
                                                        Tbl.len_neighbours)
                     IN  loc' = [accepted_sample |-> p.sample,
                                 accepted_log_prob |-> p.log_prob,
                                 accepted_eng |-> accepted_eng,
                                 accepted_boltz_log_prob |->
                                     compute_boltz_prob(accepted_eng, args.beta, 4),
                                 trial_log_prob |-> NaN,
                                 energies |-> << >>,
                                 samples |-> << >>,
                                 accepted |-> 1,
                                 accepted_single |-> 0,
                                 accepted_neural |-> 1,
                                 type_accepted |-> "neural",
                                 neural_after_single |-> 0,
                                 steps_neural |-> 1,
                                 steps_single |-> 0,
                                 step |-> 0]
    /\ last' = [op |-> "start"]
    /\ UNCHANGED <<args, rng, run, first>>

\* lines 709-736: accept or reject the trial, save every save_every steps;
\* l is loc with the proposal counted, r the generator after its draws
SeqDecide(l, r, neural, trial_sample, trial_eng, log_prob_ratio, tr) ==
    LET trial_boltz_log_prob == compute_boltz_prob(trial_eng, args.beta, 4)
        transition_prob == PyMinZero(log_prob_ratio)
        drew == ~(transition_prob.tag = "fin" /\ transition_prob.val >= 0)
        u == Ranf(r)
        accept == SeqAccept(transition_prob, u)
        l1 == IF accept
              THEN HybridTake(l, neural, trial_sample, l.trial_log_prob, trial_eng,
                              trial_boltz_log_prob)
              ELSE l
        save == l.step % args.save_every = 0
        l2 == IF save THEN HybridSave(l1) ELSE l1
    IN  [loc |-> [l2 EXCEPT !.step = @ + 1],
         rng |-> IF drew THEN NextRng(r) ELSE r,
         pc |-> "loop",
         last |-> [tr EXCEPT !.outcome = IF accept THEN "accept" ELSE "reject",
                             !.ratio = log_prob_ratio, !.drew = drew, !.u = u,
                             !.saved = save]]

SeqTrace(neural, trial_sample, trial_log_prob, trial_eng) ==
    [op |-> "iter", outcome |-> "skip", neural |-> neural,
     trial_sample |-> trial_sample, trial_log_prob |-> trial_log_prob,
     trial_eng |-> trial_eng, k |-> 0, ratio |-> NaN, drew |-> FALSE, u |-> 0,
     saved |-> FALSE]

\* lines 631-677: the next row of the prefetched arrays is the trial
SeqNeural(p) ==
    LET trial_eng == compute_energy(p.sample, Tbl.neighbours, Tbl.couplings,
                                    Tbl.len_neighbours)
        trial_boltz_log_prob == compute_boltz_prob(trial_eng, args.beta, 4)
        tr == SeqTrace(TRUE, p.sample, p.log_prob, trial_eng)
        l0 == [loc EXCEPT !.trial_log_prob = p.log_prob]
        \* the accepted sample is scored again by the model
        l == [l0 EXCEPT !.accepted_log_prob =
                            MadeForward(args.model, ToBinary(loc.accepted_sample)),
                        !.steps_neural = @ + 1]
    IN  IF ~isfinite(p.log_prob)
        THEN [loc |-> [l0 EXCEPT !.step = @ + 1], rng |-> rng, pc |-> "loop",
              last |-> tr]
        ELSE IF ~isfinite(Fin(trial_eng)) \/ ~isfinite(Fin(trial_boltz_log_prob))
        THEN [loc |-> [l EXCEPT !.step = @ + 1], rng |-> rng, pc |-> "loop",
              last |-> tr]
        ELSE SeqDecide(l, rng, TRUE, p.sample, trial_eng,
                       SeqLogRatio(trial_boltz_log_prob, l.accepted_boltz_log_prob,
                                   l.accepted_log_prob, p.log_prob),
                       tr)

\* lines 679-707: a single spin flip of the accepted sample is the trial
SeqSingle ==
    LET k == Randint(rng, 4)
        trial_sample == Flip(loc.accepted_sample, k)
        deltah == compute_delta_h(k, loc.accepted_sample, Tbl.neighbours[k],
                                  Tbl.couplings[k], Tbl.len_neighbours[k])
        trial_eng == loc.accepted_eng + deltah
        trial_boltz_log_prob == compute_boltz_prob(trial_eng, args.beta, 4)
        tr == [SeqTrace(FALSE, trial_sample, loc.trial_log_prob, trial_eng)
                 EXCEPT !.k = k]
        l == [loc EXCEPT !.steps_single = @ + 1]
    IN  IF ~isfinite(Fin(trial_eng)) \/ ~isfinite(Fin(trial_boltz_log_prob))
        THEN [loc |-> [l EXCEPT !.step = @ + 1], rng |-> NextRng(rng), pc |-> "loop",
              last |-> tr]
        ELSE SeqDecide(l, NextRng(rng), FALSE, trial_sample, trial_eng,
                       Fin(trial_boltz_log_prob - l.accepted_boltz_log_prob), tr)

\* lines 628-749: one iteration of the loop (step > MAX_STEPS = 1e10 never holds)
SeqIter ==
    /\ pc = "loop"
    /\ args.driver = "seq"
    /\ loc.step < TotalSteps(args) - 1
    /\ IF loc.step % args.len_seq_single = 0
       THEN IF ~(loc.steps_neural < NumProposals(args))
            THEN \* proposals[steps_neural] is past the end of the array
                 /\ pc' = "crashed"
                 /\ last' = [SeqTrace(TRUE, loc.accepted_sample, NaN, 0)
                               EXCEPT !.outcome = "IndexError_proposals"]
                 /\ UNCHANGED <<loc, proposals, rng>>
            ELSE \E p \in ReadSet(loc.steps_neural) :
                   LET res == SeqNeural(p)
                   IN  /\ proposals' = AfterRead(loc.steps_neural, p)
                       /\ loc' = res.loc
                       /\ rng' = res.rng
                       /\ pc' = res.pc
                       /\ last' = res.last
       ELSE LET res == SeqSingle
            IN  /\ loc' = res.loc
                /\ rng' = res.rng
                /\ pc' = res.pc
                /\ last' = res.last
                /\ UNCHANGED proposals
    /\ UNCHANGED <<args, run, first>>

\* lines 751-775: the loop is over, return
SeqReturn ==
    /\ pc = "loop"
    /\ args.driver = "seq"
    /\ loc.step = TotalSteps(args) - 1
    /\ IF Len(loc.energies) = 0
       THEN \* energies.min() of an empty array raises ValueError; `step` is
            \* unbound (NameError) when the loop had no iteration at all
            /\ pc' = "crashed"
            /\ loc' = loc
            /\ last' = [op |-> "return",
                        outcome |-> IF TotalSteps(args) = 1 THEN "NameError"
                                    ELSE "ValueError"]
       ELSE /\ pc' = "done"
            /\ loc' = [loc EXCEPT
                         !.samples = [n \in DOMAIN @ |->
                                        [i \in DOMAIN @[n] |-> AsInt8(@[n][i])]]]
            /\ last' = [op |-> "return", outcome |-> "ok"]
    /\ UNCHANGED <<args, proposals, rng, run, first>>

----------------------------------------------------------------------------
(* exchange_rbm *)

\* torch.bernoulli(torch.ones(spins) * 0.5): any {0,1} vector
BernoulliHalf(spins) == [0..(spins - 1) -> {0, 1}]

\* RBM._to_visible(RBM._to_hidden(v)): one Gibbs step, drawn by torch
GibbsStep(path, v) == {ToBinary(AllUp), ToBinary(OneDown), ToBinary(TwoDown)}

\* RBM._free_energy(v)
FreeEnergy(path, v) == -2 * Cardinality({i \in DOMAIN v : v[i] = 1}) + v[0]

\* lines 983-988
SwapLogRatio(boltz_log_prob_single, boltz_log_prob_rbm, rbm_log_prob_single, rbm_log_prob_rbm) ==
    boltz_log_prob_single - boltz_log_prob_rbm + rbm_log_prob_single - rbm_log_prob_rbm

\* lines 990, 997: log_prob_swap >= 0.0 or np.log(U) < log_prob_swap
SwapAccept(log_swap_ratio, u) ==
    LET log_prob_swap == IF log_swap_ratio < 0 THEN log_swap_ratio ELSE 0
    IN  log_prob_swap >= 0 \/ LessPow2(u, log_prob_swap)

\* lines 910-939
ExchangeStart ==
    /\ pc = "entry"
    /\ args.driver = "exchange"
    /\ \E sample_rbm \in BernoulliHalf(args.spins) :
          LET sample_single == ToSpin(sample_rbm)
          IN  loc' = [sample_rbm |-> sample_rbm,
                      sample_single |-> sample_single,
                      eng_single |-> compute_energy(sample_single, Tbl.neighbours,
                                                    Tbl.couplings, Tbl.len_neighbours),
                      eng_rbm |-> 0,
                      energies_rbm |-> << >>,
                      samples_rbm |-> << >>,
                      energies_single |-> << >>,
                      samples_single |-> << >>,
                      accepted |-> 0,
                      swap |-> 0,
                      step |-> 0]
    /\ pc' = "loop"
    /\ last' = [op |-> "start"]
    /\ UNCHANGED <<args, proposals, rng, run, first>>

\* lines 949-953: the single spin flip of chain A
ExchangeFlip(l, k, deltah, accept) ==
    [l EXCEPT !.sample_single = IF accept THEN Flip(@, k) ELSE @,
              !.eng_single = IF accept THEN @ + deltah ELSE @,
              !.accepted = IF accept THEN @ + 1 ELSE @]

\* chain B is left as it was
ExchangeMirror_stale(l) == [l EXCEPT !.step = @ + 1]

\* lines 955-957: warm-up, chain B mirrors chain A
ExchangeMirror(l) ==
    [l EXCEPT !.sample_rbm = ToBinary(l.sample_single), !.step = @ + 1]

\* lines 960-974: the Gibbs step of chain B and the save of both chains
ExchangeGibbs(l, sample_rbm, eng_rbm, save) ==
    [l EXCEPT !.sample_rbm = sample_rbm,
              !.eng_rbm = eng_rbm,
              !.samples_rbm = IF save THEN Append(@, ToSpin(sample_rbm)) ELSE @,
              !.energies_rbm = IF save THEN Append(@, eng_rbm) ELSE @,
              !.samples_single = IF save THEN Append(@, l.sample_single) ELSE @,
              !.energies_single = IF save THEN Append(@, l.eng_single) ELSE @]

\* lines 976-988
ExchangeLogRatio(l) ==
    SwapLogRatio(compute_boltz_prob(l.eng_single, args.beta, 4),
                 compute_boltz_prob(l.eng_rbm, args.beta, 4),
                 FreeEnergy(args.path, ToBinary(l.sample_single)),
                 FreeEnergy(args.path, l.sample_rbm))

\* the samples are exchanged, the energies are not
ExchangeSwap_keepeng(l, do_swap) ==
    IF do_swap
    THEN [l EXCEPT !.sample_rbm = ToBinary(l.sample_single),
                   !.sample_single = ToSpin(l.sample_rbm),
                   !.swap = @ + 1]
    ELSE l

\* lines 997-1003: the two chains exchange samples and energies
ExchangeSwap(l, do_swap) ==
    IF do_swap
    THEN [l EXCEPT !.sample_rbm = ToBinary(l.sample_single),
                   !.sample_single = ToSpin(l.sample_rbm),
                   !.eng_rbm = l.eng_single,
                   !.eng_single = l.eng_rbm,
                   !.swap = @ + 1]
    ELSE l

\* lines 1005-1010: energies_single[-1] of a list that is still empty raises
ExchangeEnd(l) ==
    IF Len(l.energies_single) = 0
    THEN [loc |-> l, pc |-> "crashed", outcome |-> "IndexError"]
    ELSE [loc |-> [l EXCEPT !.step = @ + 1], pc |-> "loop", outcome |-> "ok"]

\* lines 940-1010: one iteration of the loop
ExchangeIter ==
    /\ pc = "loop"
    /\ args.driver = "exchange"
    /\ loc.step < args.steps * args.save_every
    /\ LET k == Randint(rng, args.spins)
           deltah == compute_delta_h(k, loc.sample_single, Tbl.neighbours[k],
                                     Tbl.couplings[k], Tbl.len_neighbours[k])
           drew == ~(deltah < 0)
           accept == MetropolisAccept(deltah, Ranf(NextRng(rng)), args.beta)
           r2 == IF drew THEN NextRng(NextRng(rng)) ELSE NextRng(rng)
           l1 == ExchangeFlip(loc, k, deltah, accept)
           tr == [op |-> "iter", k |-> k, deltah |-> deltah, accept |-> accept,
                  warm |-> TRUE, saved |-> FALSE, ratio |-> 0, swapped |-> FALSE,
                  outcome |-> "ok"]
       IN  IF loc.step < WarmUp
           THEN /\ loc' = ExchangeMirror(l1)
                /\ rng' = r2
                /\ last' = tr
                /\ pc' = pc
           ELSE \E sample_rbm \in GibbsStep(args.path, loc.sample_rbm) :
                  LET save == loc.step % args.save_every = 0
                      l2 == ExchangeGibbs(l1, sample_rbm,
                                          compute_energy(ToSpin(sample_rbm),
                                                         Tbl.neighbours, Tbl.couplings,
                                                         Tbl.len_neighbours),
                                          save)
                      log_swap_ratio == ExchangeLogRatio(l2)
                      do_swap == SwapAccept(log_swap_ratio, Ranf(r2))
                      res == ExchangeEnd(ExchangeSwap(l2, do_swap))
                  IN  /\ loc' = res.loc
                      /\ rng' = IF log_swap_ratio < 0 THEN NextRng(r2) ELSE r2
                      /\ pc' = res.pc
                      /\ last' = [tr EXCEPT !.warm = FALSE, !.saved = save,
                                           !.ratio = log_swap_ratio,
                                           !.swapped = do_swap,
                                           !.outcome = res.outcome]
    /\ UNCHANGED <<args, proposals, run, first>>

\* lines 1012-1034: the loop is over, return (samples_single, energies_single)
ExchangeReturn ==
    /\ pc = "loop"
    /\ args.driver = "exchange"
    /\ loc.step = args.steps * args.save_every
    /\ loc' = [loc EXCEPT
                 !.samples_single = [n \in DOMAIN @ |->
                                       [i \in DOMAIN @[n] |-> AsInt8(@[n][i])]],
                 !.samples_rbm = [n \in DOMAIN @ |->
                                    [i \in DOMAIN @[n] |-> AsInt8(@[n][i])]]]
    /\ pc' = "done"
    /\ last' = [op |-> "return", outcome |-> "ok"]
    /\ UNCHANGED <<args, proposals, rng, run, first>>

----------------------------------------------------------------------------

Next ==
    \/ LocalStart
    \/ LocalAttempt
    \/ LocalSave
    \/ LocalReturn
    \/ NeuralStart
    \/ NeuralIter
    \/ NeuralReturn
    \/ HybridStart
    \/ HybridIter
    \/ HybridReturn
    \/ SeqStart
    \/ SeqIter
    \/ SeqReturn
    \/ ExchangeStart
    \/ ExchangeIter
    \/ ExchangeReturn

Spec == Init /\ [][Next]_vars

----------------------------------------------------------------------------
(* The same call made a second time in the same process *)

\* what the call returned: (samples, energies) and, where the driver returns
\* one, the acceptance rate accepted / steps * 100 as a fraction
Returned ==
    CASE args.driver = "local" ->
            [samples |-> loc.configs, energies |-> loc.energies, rate |-> <<0, 1>>]
      [] args.driver = "exchange" ->
            [samples |-> loc.samples_single, energies |-> loc.energies_single,
             rate |-> <<0, 1>>]
      [] OTHER ->
            [samples |-> loc.samples, energies |-> loc.energies,
             rate |-> <<loc.accepted * 100, TotalSteps(args)>>]

MaxDraws == 1

\* the calls that are made twice
TwiceArgs ==
    {a \in LocalArgs \cup NeuralArgs : a.couplings_path = "open_glass" /\ a.beta = 1}

InitTwice ==
    /\ args \in TwiceArgs
    /\ proposals = << >>
    /\ pc = "entry"
    /\ rng \in 0..(RngMod - 1)
    /\ loc = [step |-> 0]
    /\ last = NoLast
    /\ run = 1
    /\ first = NoFirst

\* the caller draws from np.random up to MaxDraws times, then makes the same
\* call again: same arguments, same prefetched arrays
CallAgain ==
    /\ pc = "done"
    /\ run = 1
    /\ first' = [set |-> TRUE, ret |-> Returned]
    /\ run' = 2
    /\ pc' = "entry"
    /\ loc' = [step |-> 0]
    /\ last' = NoLast
    /\ \E n \in 0..MaxDraws : rng' = RngAfter(rng, n)
    /\ UNCHANGED <<args, proposals>>

NextTwice ==
    \/ LocalStart
    \/ LocalAttempt
    \/ LocalSave
    \/ LocalReturn
    \/ NeuralStart
    \/ NeuralIter
    \/ NeuralReturn
    \/ CallAgain

SpecTwice == InitTwice /\ [][NextTwice]_vars

----------------------------------------------------------------------------
(* The kernels alone, on every symmetric table of KernelSpins sites *)

KernelSpins == 3

Sites == 0..(KernelSpins - 1)
Edges == {e \in Sites \X Sites : e[1] < e[2]}

\* J[a][b] of the symmetric matrix with weights W on the edges
Jof(W, a, b) ==
    IF a < b THEN W[<<a, b>>] ELSE IF b < a THEN W[<<b, a>>] ELSE 0

NeighboursOf(W, i) == {j \in Sites : Jof(W, i, j) # 0}

\* the n-th smallest element of S, counted from 0
Nth(S, n) == CHOOSE x \in S : Cardinality({y \in S : y < x}) = n

\* what fills the rows behind the true neighbours
Pads == {[site |-> 0, value |-> 0], [site |-> KernelSpins - 1, value |-> 1]}

\* per-site rows of the neighbours in ascending order, padded to a common width
PaddedTable(W, pad) ==
    [neighbours |->
        [i \in Sites |-> [j \in 0..(KernelSpins - 2) |->
            IF j < Cardinality(NeighboursOf(W, i))
            THEN Nth(NeighboursOf(W, i), j) ELSE pad.site]],
     couplings |->
        [i \in Sites |-> [j \in 0..(KernelSpins - 2) |->
            IF j < Cardinality(NeighboursOf(W, i))
            THEN Jof(W, i, Nth(NeighboursOf(W, i), j)) ELSE pad.value]],
     len_neighbours |-> [i \in Sites |-> Cardinality(NeighboursOf(W, i))]]

InitKernel ==
    /\ args = [driver |-> "kernel"]
    /\ proposals = << >>
    /\ pc = "entry"
    /\ rng = 0
    /\ \E W \in [Edges -> {-1, 0, 1}], pad \in Pads :
          loc = [W |-> W, pad |-> pad, table |-> PaddedTable(W, pad)]
    /\ last = NoLast
    /\ run = 1
    /\ first = NoFirst

\* compute_energy(sample, neighbours, couplings, len_neighbours)
KernelEnergy ==
    /\ pc = "entry"
    /\ args.driver = "kernel"
    /\ \E sample \in [Sites -> {-1, 1}] :
          loc' = [W |-> loc.W, pad |-> loc.pad, table |-> loc.table,
                  sample |-> sample,
                  energy |-> compute_energy(sample, loc.table.neighbours,
                                            loc.table.couplings,
                                            loc.table.len_neighbours)]
    /\ pc' = "energy"
    /\ UNCHANGED <<args, proposals, rng, last, run, first>>

\* compute_delta_h(k, sample, neighbours[k], couplings[k], len_neighbours[k])
KernelDeltaH ==
    /\ pc = "energy"
    /\ args.driver = "kernel"
    /\ \E k \in Sites :
          loc' = [W |-> loc.W, pad |-> loc.pad, table |-> loc.table,
                  sample |-> loc.sample, energy |-> loc.energy, k |-> k,
                  delta_h |-> compute_delta_h(k, loc.sample,
                                              loc.table.neighbours[k],
                                              loc.table.couplings[k],
                                              loc.table.len_neighbours[k])]
    /\ pc' = "deltah"
    /\ UNCHANGED <<args, proposals, rng, last, run, first>>

\* sample[k] = -sample[k], then compute_energy of the flipped sample
KernelFlip ==
    /\ pc = "deltah"
    /\ args.driver = "kernel"
    /\ loc' = [W |-> loc.W, pad |-> loc.pad, table |-> loc.table,
               sample |-> loc.sample, energy |-> loc.energy, k |-> loc.k,
               delta_h |-> loc.delta_h,
               energy_flip |-> compute_energy(Flip(loc.sample, loc.k),
                                              loc.table.neighbours,
                                              loc.table.couplings,
                                              loc.table.len_neighbours)]
    /\ pc' = "done"
    /\ UNCHANGED <<args, proposals, rng, last, run, first>>

NextKernel == KernelEnergy \/ KernelDeltaH \/ KernelFlip

SpecKernel == InitKernel /\ [][NextKernel]_vars

----------------------------------------------------------------------------
(* The kernels on the periodic L x L lattice with all couplings J = 1 *)

TorusSides == {2, 3}

\* rows of the sites in row-major order: right, left, down, up, with periodicity
TorusTable(L) ==
    LET site(r, c) == ((r + L) % L) * L + ((c + L) % L)
        row(i) == i \div L
        col(i) == i % L
    IN  [neighbours |->
            [i \in 0..(L * L - 1) |->
                ZB(<< site(row(i), col(i) + 1), site(row(i), col(i) - 1),
                      site(row(i) + 1, col(i)), site(row(i) - 1, col(i)) >>)],
         couplings |-> [i \in 0..(L * L - 1) |-> ZB(<<1, 1, 1, 1>>)]]

\* get_couplings on that lattice
TorusCouplings(L) ==
    LET adjacency == TorusTable(L)
    IN  [neighbours |-> adjacency.neighbours,
         couplings |-> adjacency.couplings,
         len_neighbours |-> [i \in DOMAIN adjacency.couplings |->
                                CountNonZero(adjacency.couplings[i])]]

AllUpOf(spins) == [i \in 0..(spins - 1) |-> 1]

InitTorus ==
    /\ \E side \in TorusSides :
          /\ args = [driver |-> "torus", side |-> side, spins |-> side * side]
          /\ loc = [table |-> TorusCouplings(side)]
    /\ proposals = << >>
    /\ pc = "entry"
    /\ rng = 0
    /\ last = NoLast
    /\ run = 1
    /\ first = NoFirst

\* compute_energy(sample, neighbours, couplings, len_neighbours)
TorusEnergy ==
    /\ pc = "entry"
    /\ args.driver = "torus"
    /\ \E sample \in [0..(args.spins - 1) -> {-1, 1}] :
          loc' = [table |-> loc.table,
                  sample |-> sample,
                  energy |-> compute_energy(sample, loc.table.neighbours,
                                            loc.table.couplings,
                                            loc.table.len_neighbours)]
    /\ pc' = "energy"
    /\ UNCHANGED <<args, proposals, rng, last, run, first>>

\* compute_delta_h(k, sample, neighbours[k], couplings[k], len_neighbours[k])
TorusDeltaH ==
    /\ pc = "energy"
    /\ args.driver = "torus"
    /\ \E k \in 0..(args.spins - 1) :
          loc' = [table |-> loc.table, sample |-> loc.sample,
                  energy |-> loc.energy, k |-> k,
                  delta_h |-> compute_delta_h(k, loc.sample,
                                              loc.table.neighbours[k],
                                              loc.table.couplings[k],
                                              loc.table.len_neighbours[k])]
    /\ pc' = "deltah"
    /\ UNCHANGED <<args, proposals, rng, last, run, first>>

\* sample[k] = -sample[k], then compute_energy of the flipped sample
TorusFlip ==
    /\ pc = "deltah"
    /\ args.driver = "torus"
    /\ loc' = [table |-> loc.table, sample |-> loc.sample,
               energy |-> loc.energy, k |-> loc.k, delta_h |-> loc.delta_h,
               energy_flip |-> compute_energy(Flip(loc.sample, loc.k),
                                              loc.table.neighbours,
                                              loc.table.couplings,
                                              loc.table.len_neighbours)]
    /\ pc' = "done"
    /\ UNCHANGED <<args, proposals, rng, last, run, first>>

NextTorus == TorusEnergy \/ TorusDeltaH \/ TorusFlip

SpecTorus == InitTorus /\ [][NextTorus]_vars

----------------------------------------------------------------------------
(* single_spin_flip called with a number of spins that is not a square *)

\* int(math.sqrt(spins))
IntSqrt(n) == CHOOSE r \in 0..n : r * r <= n /\ n < (r + 1) * (r + 1)

\* line 63: spin_side = int(math.sqrt(spins))
SpinSide(a) == IntSqrt(a.spins)

\* calls whose spins is not a square; get_couplings(2, couplings_path) then
\* returns the tables of the 2x2 lattice
NonSquareArgs ==
    [driver : {"local"}, spins : {5}, beta : {1}, steps : 1..(MaxSteps - 1),
     couplings_path : CouplingsFiles, sweeps : {0, 1}, burnt : {0, 1},
     seed : 0..MaxSeed]

InitNonSquare ==
    /\ args \in NonSquareArgs
    /\ proposals = << >>
    /\ pc = "entry"
    /\ rng \in 0..(RngMod - 1)
    /\ loc = [step |-> 0]
    /\ last = NoLast
    /\ run = 1
    /\ first = NoFirst

NextNonSquare ==
    \/ LocalStart
    \/ LocalAttempt
    \/ LocalSave
    \/ LocalReturn

SpecNonSquare == InitNonSquare /\ [][NextNonSquare]_vars

----------------------------------------------------------------------------
(* single_spin_flip called on two worker threads of one process.  Every     *)
(* np.random call is one atomic step (the interpreter lock is held for the  *)
(* call); between two calls of one thread the other thread may run.         *)

MaxThreadSteps == 2

Threads == {1, 2}

ThreadArgs ==
    {a \in LocalArgs : /\ a.couplings_path = "open_glass"
                       /\ a.beta = 1
                       /\ a.sweeps = 0
                       /\ a.burnt = 0
                       /\ a.steps <= MaxThreadSteps}

ThreadTbl == CouplingsOf["open_glass"]

InitThreads ==
    /\ \E calls \in [Threads -> ThreadArgs] :
          args = [driver |-> "threads", calls |-> calls]
    /\ proposals = << >>
    /\ pc = [t \in Threads |-> "entry"]
    /\ rng = 0
    /\ loc = [t \in Threads |-> [step |-> 0]]
    /\ last = NoLast
    /\ run = 1
    /\ first = NoFirst

\* line 67: np.random.seed(seed) overwrites the generator of the process
ThreadSeed(t) ==
    /\ pc[t] = "entry"
    /\ rng' = SeedState(args.calls[t].seed)
    /\ pc' = [pc EXCEPT ![t] = "seeded"]
    /\ last' = [op |-> "seed", t |-> t]
    /\ UNCHANGED <<args, proposals, loc, run, first>>

\* lines 68-81: the start configuration drawn from the generator as it is now
ThreadSample(t) ==
    /\ pc[t] = "seeded"
    /\ LET sample == RandomSample(rng, args.calls[t].spins)
       IN  loc' = [loc EXCEPT ![t] =
                     [sample |-> sample,
                      configs |-> << >>,
                      energies |-> << >>,
                      accepted |-> 0,
                      single_step |-> 0,
                      eng_now |-> compute_energy(sample, ThreadTbl.neighbours,
                                                 ThreadTbl.couplings,
                                                 ThreadTbl.len_neighbours),
                      step |-> 0,
                      k |-> 0,
                      deltah |-> 0]]
    /\ rng' = RngAfter(rng, args.calls[t].spins)
    /\ pc' = [pc EXCEPT ![t] = "loop"]
    /\ last' = [op |-> "sample", t |-> t]
    /\ UNCHANGED <<args, proposals, run, first>>

\* lines 93-104 with skip_steps = 1: flip on accept, then the end of the outer
\* iteration
ThreadSettle(a, l, k, deltah, accept) ==
    LET sample == IF accept THEN Flip(l.sample, k) ELSE l.sample
        eng_now == IF accept THEN l.eng_now + deltah ELSE l.eng_now
        save == AfterBurnIn(l.step, a.burnt)
    IN  [l EXCEPT !.single_step = @ + 1,
                  !.sample = sample,
                  !.eng_now = eng_now,
                  !.accepted = IF accept THEN @ + 1 ELSE @,
                  !.energies = IF save THEN Append(@, eng_now) ELSE @,
                  !.configs = IF save THEN Append(@, sample) ELSE @,
                  !.step = @ + 1,
                  !.k = k,
                  !.deltah = deltah]

\* lines 85-92: draw the site; a downhill flip is accepted without a draw of U
ThreadDrawK(t) ==
    /\ pc[t] = "loop"
    /\ loc[t].step < args.calls[t].steps + args.calls[t].burnt
    /\ LET k == Randint(rng, args.calls[t].spins)
           deltah == compute_delta_h(k, loc[t].sample, ThreadTbl.neighbours[k],
                                     ThreadTbl.couplings[k],
                                     ThreadTbl.len_neighbours[k])
       IN  IF deltah < 0
           THEN /\ loc' = [loc EXCEPT ![t] =
                             ThreadSettle(args.calls[t], loc[t], k, deltah, TRUE)]
                /\ pc' = pc
           ELSE /\ loc' = [loc EXCEPT ![t] = [@ EXCEPT !.k = k, !.deltah = deltah]]
                /\ pc' = [pc EXCEPT ![t] = "uphill"]
    /\ rng' = NextRng(rng)
    /\ last' = [op |-> "site", t |-> t]
    /\ UNCHANGED <<args, proposals, run, first>>

\* line 92: np.random.ranf() < np.exp(-beta * deltah)
ThreadDrawU(t) ==
    /\ pc[t] = "uphill"
    /\ LET accept == MetropolisAccept(loc[t].deltah, Ranf(rng), args.calls[t].beta)
       IN  loc' = [loc EXCEPT ![t] =
                     ThreadSettle(args.calls[t], loc[t], loc[t].k, loc[t].deltah,
                                  accept)]
    /\ rng' = NextRng(rng)
    /\ pc' = [pc EXCEPT ![t] = "loop"]
    /\ last' = [op |-> "ranf", t |-> t]
    /\ UNCHANGED <<args, proposals, run, first>>

\* lines 111-129
ThreadReturn(t) ==
    /\ pc[t] = "loop"
    /\ loc[t].step = args.calls[t].steps + args.calls[t].burnt
    /\ pc' = [pc EXCEPT ![t] = "done"]
    /\ last' = [op |-> "return", t |-> t]
    /\ UNCHANGED <<args, proposals, rng, loc, run, first>>

NextThreads ==
    \E t \in Threads :
        \/ ThreadSeed(t)
        \/ ThreadSample(t)
        \/ ThreadDrawK(t)
        \/ ThreadDrawU(t)
        \/ ThreadReturn(t)

SpecThreads == InitThreads /\ [][NextThreads]_vars

\* the same call with no other thread running: the loop from state l with the
\* generator at r
RECURSIVE AloneFrom(_, _, _)
AloneFrom(a, l, r) ==
    IF l.step = a.steps + a.burnt THEN l
    ELSE LET k == Randint(r, a.spins)
             deltah == compute_delta_h(k, l.sample, ThreadTbl.neighbours[k],
                                       ThreadTbl.couplings[k],
                                       ThreadTbl.len_neighbours[k])
             r1 == NextRng(r)
             accept == MetropolisAccept(deltah, Ranf(r1), a.beta)
         IN  AloneFrom(a, ThreadSettle(a, l, k, deltah, accept),
                       IF deltah < 0 THEN r1 ELSE NextRng(r1))

Alone(a) ==
    LET seeded == SeedState(a.seed)
        sample == RandomSample(seeded, a.spins)
    IN  AloneFrom(a,
                  [sample |-> sample, configs |-> << >>, energies |-> << >>,
                   accepted |-> 0, single_step |-> 0,
                   eng_now |-> compute_energy(sample, ThreadTbl.neighbours,
                                              ThreadTbl.couplings,
                                              ThreadTbl.len_neighbours),
                   step |-> 0, k |-> 0, deltah |-> 0],
                  RngAfter(seeded, a.spins))

----------------------------------------------------------------------------------------------------------------------------------------
(* hybrid_mcmc under a scaled-down step limit *)

\* the values MAX_STEPS takes in these calls
SmallMaxSteps == 1

\* steps * save_every of these calls goes up to MaxSteps + 2
LimitArgs ==
    {a \in [driver : {"hybrid"}, beta : {1}, steps : 1..(MaxSteps + 2),
            couplings_path : {"open_glass"}, save_every : {1, 2},
            prob_single : {0, 1}, model : {"made_a"},
            max_steps : 1..SmallMaxSteps] :
        a.steps * a.save_every <= MaxSteps + 2}

InitLimit ==
    /\ args \in LimitArgs
    /\ proposals = << >>
    /\ pc = "entry"
    /\ rng \in 0..(RngMod - 1)
    /\ loc = [step |-> 0]
    /\ last = NoLast
    /\ run = 1
    /\ first = NoFirst

NextLimit ==
    \/ HybridStart
    \/ HybridIter
    \/ HybridReturn

SpecLimit == InitLimit /\ [][NextLimit]_vars

----------------
(* What a call has emitted so far *)

Started == pc \in {"loop", "done", "crashed"}

EmittedSamples ==
    CASE args.driver = "local" -> loc.configs
      [] args.driver = "exchange" -> loc.samples_single
      [] OTHER -> loc.samples

EmittedEnergies ==
    CASE args.driver = "local" -> loc.energies
      [] args.driver = "exchange" -> loc.energies_single
      [] OTHER -> loc.energies

\* the configuration and the energy the chain holds now
ChainSample == IF args.driver = "local" THEN loc.sample ELSE loc.accepted_sample
ChainEnergy == IF args.driver = "local" THEN loc.eng_now ELSE loc.accepted_eng

EnergyOf(sample) ==
    compute_energy(sample, Tbl.neighbours, Tbl.couplings, Tbl.len_neighbours)

\* iterations of the running loop that were skipped so far
Skipped ==
    IF args.driver = "neural" THEN loc.idx - Len(loc.energies)
    ELSE loc.step - Len(loc.energies)

----------------------------------------------------------------------------
(* Properties *)

\* C1: in the local, neural, hybrid and sequential drivers every emitted
\* record (s, E) has E = compute_energy(s), and the energy the chain carries
\* along (updated by delta_h on a flip) is the energy of its configuration.
EnergyConsistent ==
    (Started /\ args.driver \in {"local", "neural", "hybrid", "seq"}) =>
        /\ Len(EmittedSamples) = Len(EmittedEnergies)
        /\ \A n \in 1..Len(EmittedSamples) :
              EmittedEnergies[n] = EnergyOf(EmittedSamples[n])
        /\ pc = "loop" => ChainEnergy = EnergyOf(ChainSample)

\* C1 witness: the hybrid driver emitted a record after an accepted single
\* spin flip whose energy came from accepted_eng + deltah
EnergyConsistentSeen ==
    /\ args.driver = "hybrid"
    /\ pc = "loop"
    /\ last.op = "iter"
    /\ last.outcome = "accept"
    /\ ~last.neural
    /\ Len(loc.energies) >= 2
    /\ loc.energies[Len(loc.energies)] # loc.energies[1]

\* C2: for every symmetric table, configuration s and site k,
\* compute_energy(flip(s, k)) - compute_energy(s) = compute_delta_h(k, s, ...).
\* The tables are those of a symmetric coupling matrix over pairs of distinct
\* sites: no site is listed as its own neighbour.
DeltaHCorrect ==
    (args.driver = "kernel" /\ pc = "done") =>
        loc.energy_flip - loc.energy = loc.delta_h

\* C2 witness: a flip that raises the energy, on a row that carries padding
DeltaHCorrectSeen ==
    /\ args.driver = "kernel"
    /\ pc = "done"
    /\ loc.delta_h > 0
    /\ loc.table.len_neighbours[loc.k] < KernelSpins - 1

\* twice the energy, summed over the coupling matrix itself
MatrixSum(W, sample) ==
    SumFn([a \in Sites |->
              SumFn([b \in Sites |-> sample[a] * sample[b] * Jof(W, a, b)],
                    KernelSpins)],
          KernelSpins)

\* C3: compute_energy is exactly half the sum over sites i and row positions
\* j < deg[i] of s[i]*s[neighbours[i][j]]*couplings[i][j], and what the rows
\* hold at positions j >= deg[i] changes neither compute_energy nor
\* compute_delta_h.
PaddingIgnored ==
    (args.driver = "kernel" /\ pc \in {"energy", "deltah", "done"}) =>
        /\ 2 * loc.energy = MatrixSum(loc.W, loc.sample)
        /\ \A pad \in Pads :
              LET other == PaddedTable(loc.W, pad)
              IN  /\ loc.energy = compute_energy(loc.sample, other.neighbours,
                                                 other.couplings,
                                                 other.len_neighbours)
                  /\ pc \in {"deltah", "done"} =>
                        loc.delta_h = compute_delta_h(loc.k, loc.sample,
                                                      other.neighbours[loc.k],
                                                      other.couplings[loc.k],
                                                      other.len_neighbours[loc.k])

\* C3 witness: a non-zero energy computed from rows padded with a non-zero
\* coupling to another site
PaddingIgnoredSeen ==
    /\ args.driver = "kernel"
    /\ pc = "deltah"
    /\ loc.pad.value # 0
    /\ loc.energy # 0
    /\ loc.delta_h # 0
    /\ \E i \in Sites : loc.table.len_neighbours[i] = 0

\* every entry of every configuration of the list is -1 or +1
AllSpins(list) ==
    \A n \in 1..Len(list) : \A i \in DOMAIN list[n] : list[n][i] \in {-1, 1}

\* C4: every entry of every configuration emitted by any of the five drivers
\* is -1 or +1 (for the exchange driver: both chains' saved configurations).
SpinDomain ==
    Started =>
        /\ AllSpins(EmittedSamples)
        /\ args.driver = "exchange" => AllSpins(loc.samples_rbm)

\* C4 witness: the exchange driver saved both chains again after a swap
SpinDomainSeen ==
    /\ args.driver = "exchange"
    /\ pc = "done"
    /\ loc.swap > 0
    /\ Len(loc.samples_single) >= 2
    /\ loc.samples_single[2] # loc.samples_single[1]

\* C5: an attempt of the local driver draws a site k, computes
\* dH = compute_delta_h(k, s) and accepts iff dH < 0 or U < exp(-beta*dH); on
\* accept exactly s[k] is negated, E becomes E + dH and accepted grows by one;
\* on reject s, E and accepted are unchanged.
LocalRule ==
    [][(args.driver = "local" /\ pc = "loop" /\ last'.op = "attempt") =>
         LET k == last'.k
             dH == compute_delta_h(k, loc.sample, Tbl.neighbours[k],
                                   Tbl.couplings[k], Tbl.len_neighbours[k])
             U == Ranf(NextRng(rng))
             accept == dH < 0 \/ U * Pow2(args.beta * dH) < UDen
         IN  /\ k = Randint(rng, args.spins)
             /\ k \in 0..(args.spins - 1)
             /\ last'.deltah = dH
             /\ last'.accept <=> accept
             /\ accept =>
                   /\ loc'.sample[k] = -loc.sample[k]
                   /\ \A i \in DOMAIN loc.sample :
                         i # k => loc'.sample[i] = loc.sample[i]
                   /\ loc'.eng_now = loc.eng_now + dH
                   /\ loc'.accepted = loc.accepted + 1
             /\ ~accept =>
                   /\ loc'.sample = loc.sample
                   /\ loc'.eng_now = loc.eng_now
                   /\ loc'.accepted = loc.accepted]_vars

\* C5 witness: an energy-raising flip was accepted on the draw of U, and
\* another attempt was rejected
LocalRuleSeen ==
    /\ args.driver = "local"
    /\ last.op = "attempt"
    /\ last.accept
    /\ last.deltah > 0
    /\ loc.accepted < loc.single_step

\* C6: the local driver runs exactly steps + burnt outer iterations of
\* exactly 1 (sweeps = 0) or sweeps*spins attempts each, emits one record per
\* outer iteration of index >= burnt and none before, never stops early, and
\* returns exactly `steps` records.
LocalCounts ==
    (args.driver = "local" /\ pc # "entry") =>
        LET inner == IF args.sweeps = 0 THEN 1 ELSE args.sweeps * args.spins
        IN  /\ pc \in {"loop", "done"}
            /\ loc.step <= args.steps + args.burnt
            /\ loc.inner <= inner
            /\ loc.single_step = loc.step * inner + loc.inner
            /\ Len(loc.configs) = IF loc.step > args.burnt
                                  THEN loc.step - args.burnt ELSE 0
            /\ Len(loc.energies) = Len(loc.configs)
            /\ pc = "loop" => ENABLED (LocalAttempt \/ LocalSave \/ LocalReturn)
            /\ pc = "done" =>
                  /\ loc.step = args.steps + args.burnt
                  /\ loc.single_step = (args.steps + args.burnt) * inner
                  /\ Len(loc.configs) = args.steps

\* C6 witness: a run with burn-in and sweeps returned
LocalCountsSeen ==
    /\ args.driver = "local"
    /\ pc = "done"
    /\ args.burnt = 1
    /\ args.sweeps = 1
    /\ args.steps = 2
    /\ Len(loc.configs) = 2

\* C7: with lna = accepted_lnq - trial_lnq + trial_lnpi - accepted_lnpi the
\* neural driver accepts the trial iff lna >= 0 or ln(U) < lna; on accept the
\* accepted sample, lnq, energy and lnpi become the trial's and accepted
\* grows by one.
NeuralRule ==
    [][(args.driver = "neural" /\ pc = "loop" /\ last'.op = "iter"
          /\ last'.outcome \in {"accept", "reject"}) =>
         LET trial == last'.trial
             trial_eng == EnergyOf(trial.sample)
             trial_lnpi == -args.beta * trial_eng
             lna == loc.accepted_log_prob.val - trial.log_prob.val
                      + trial_lnpi - loc.accepted_boltz_log_prob
             U == Ranf(rng)
             accept == lna >= 0 \/ U * Pow2(-lna) < UDen
         IN  /\ (last'.outcome = "accept") <=> accept
             /\ accept =>
                   /\ loc'.accepted_sample = trial.sample
                   /\ loc'.accepted_log_prob = trial.log_prob
                   /\ loc'.accepted_eng = trial_eng
                   /\ loc'.accepted_boltz_log_prob = trial_lnpi
                   /\ loc'.accepted = loc.accepted + 1]_vars

\* C7 witness: a trial with lna < 0 was accepted on the draw of U and
\* replaced a different accepted state
NeuralRuleSeen ==
    /\ args.driver = "neural"
    /\ pc = "loop"
    /\ last.op = "iter"
    /\ last.outcome = "accept"
    /\ last.drew
    /\ loc.accepted >= 2

\* C8: in the neural and hybrid drivers a skipped iteration is never fatal:
\* after a skip the driver processes every following iteration normally, so
\* no later iteration raises on log_prob_ratio[idx] or transition_prob[idx].
SkipNeverFatal ==
    (args.driver \in {"neural", "hybrid"} /\ pc = "crashed" /\ last.op = "iter"
       /\ last.outcome = "IndexError") => Skipped = 0

\* the distinct configurations emitted so far
DistinctEmitted == {EmittedSamples[n] : n \in 1..Len(EmittedSamples)}

\* what a skipped or rejected iteration must leave alone
AcceptedState(l) ==
    <<l.accepted_sample, l.accepted_eng, l.accepted_log_prob,
      l.accepted_boltz_log_prob, l.accepted>>

HybridCounters(l) == <<l.accepted_single, l.accepted_neural, l.neural_after_single>>

\* C9: in the neural and hybrid drivers a skipped or rejected iteration leaves
\* the accepted sample, energy, lnq, lnpi and every accepted counter unchanged,
\* a skipped iteration appends no record, and the number of distinct
\* configurations emitted never exceeds accepted + 1.
SkipRejectFrame ==
    /\ [][(args.driver \in {"neural", "hybrid"} /\ pc = "loop" /\ last'.op = "iter"
             /\ last'.outcome \in {"skip", "reject"}) =>
            /\ AcceptedState(loc') = AcceptedState(loc)
            /\ args.driver = "hybrid" => HybridCounters(loc') = HybridCounters(loc)
            /\ last'.outcome = "skip" =>
                  /\ loc'.samples = loc.samples
                  /\ loc'.energies = loc.energies]_vars
    /\ []((Started /\ args.driver \in {"neural", "hybrid"}) =>
             Cardinality(DistinctEmitted) <= loc.accepted + 1)

\* C9 witness: the neural driver skipped an iteration after it had accepted a
\* trial and emitted records
SkipRejectFrameSeen ==
    /\ args.driver = "neural"
    /\ pc = "loop"
    /\ last.op = "iter"
    /\ last.outcome = "skip"
    /\ loc.accepted >= 1
    /\ Cardinality(DistinctEmitted) = loc.accepted + 1

\* C10: two calls with the same arguments and the same prefetched arrays
\* return the same samples, energies and acceptance rate, whatever was drawn
\* from np.random before each of them.
Reproducible ==
    (run = 2 /\ pc = "done") => Returned = first.ret

\* C11: drivers running on worker threads of one process share no mutable
\* state: whatever the other thread does in between (its draws, its seeding
\* call), a driver sees the draws it sees alone and returns the configurations
\* and energies it returns alone.
ThreadsIsolated ==
    \A t \in Threads :
        (args.driver = "threads" /\ pc[t] = "done") =>
            /\ loc[t].configs = Alone(args.calls[t]).configs
            /\ loc[t].energies = Alone(args.calls[t]).energies

\* C12: when the hybrid driver needs a neural proposal after all prefetched
\* proposals have been consumed, the call does not raise: it ends by handing
\* the caller the chain emitted so far together with a failure flag.
\* (Stated for prob_single = 0.5, after at least one record was emitted.)
ExhaustionHandsBack ==
    (args.driver = "hybrid" /\ args.prob_single = 1 /\ last.op = "iter"
       /\ last.outcome = "IndexError_proposals" /\ Len(loc.samples) > 0) =>
        pc # "crashed"

\* C13: a call of the local driver whose spins is not a perfect square fails
\* with a configuration error before any flip attempt: no attempt is made, no
\* record is saved and the call does not return normally.
NonSquareRejected ==
    (args.driver = "local" /\ SpinSide(args) * SpinSide(args) # args.spins) =>
        last.op \notin {"attempt", "save", "return"}

\* the states of the two chains when the swap of the last iteration was
\* proposed: a swap has exchanged them since
SwapStateA == IF last.swapped THEN ToSpin(loc.sample_rbm) ELSE loc.sample_single
SwapStateB == IF last.swapped THEN loc.sample_single ELSE ToSpin(loc.sample_rbm)

\* C14: the swap log-ratio of the exchange driver is
\* (lnpi_A(s_B) - lnpi_A(s_A)) + (F(s_A) - F(s_B)) with lnpi_A(s) = -beta*E(s)
\* and F(s) = -free_energy(s), s_A the local chain's state and s_B the RBM
\* chain's state.
SwapRatioAsSpecified ==
    (args.driver = "exchange" /\ last.op = "iter" /\ ~last.warm
       /\ last.outcome = "ok") =>
        last.ratio =
            (compute_boltz_prob(EnergyOf(SwapStateB), args.beta, args.spins)
               - compute_boltz_prob(EnergyOf(SwapStateA), args.beta, args.spins))
            + ((-FreeEnergy(args.path, ToBinary(SwapStateA)))
               - (-FreeEnergy(args.path, ToBinary(SwapStateB))))

\* C15: the kernel of the local chain (site k drawn uniformly, flip accepted
\* with probability min(1, exp(-beta*dH))) satisfies detailed balance with
\* pi proportional to exp(-beta*E): pi(s)*P(s->s') = pi(s')*P(s'->s) for every
\* configuration s and its flip s' at any site, on every symmetric table of
\* KernelSpins sites.  The probabilities are those of the acceptance test of
\* the driver for a uniform draw.
DetailedBalance ==
    (args.driver = "kernel" /\ pc = "done") =>
        \A beta \in Betas :
            LET flipped == Flip(loc.sample, loc.k)
                back == compute_delta_h(loc.k, flipped,
                                        loc.table.neighbours[loc.k],
                                        loc.table.couplings[loc.k],
                                        loc.table.len_neighbours[loc.k])
                p == AcceptProb(loc.delta_h, beta)
                q == AcceptProb(back, beta)
                hi == IF loc.energy > loc.energy_flip THEN loc.energy
                      ELSE loc.energy_flip
            IN  /\ Pow2(beta * (hi - loc.energy)) * p[1] * (q[2] * KernelSpins)
                     = Pow2(beta * (hi - loc.energy_flip)) * q[1] * (p[2] * KernelSpins)
                /\ \A u \in 0..(UDen - 1) :
                      MetropolisAccept(loc.delta_h, u, beta) <=> u * p[2] < UDen * p[1]

\* C15 witness: a downhill flip, whose reverse is accepted with probability
\* below one
DetailedBalanceSeen ==
    /\ args.driver = "kernel"
    /\ pc = "done"
    /\ loc.delta_h < 0
    /\ loc.energy_flip < loc.energy
    /\ AcceptProb(loc.energy - loc.energy_flip, 1)[2] > 1

InitScanTerminates ==
    (args.driver = "neural" /\ pc = "hung") =>
        \A i \in 0..(NumProposals(args) - 1) :
            \A p \in ReadSet(i) : ~isfinite(p.log_prob)

\* C19: the hybrid and the sequential driver start their chain from a proposal
\* whose lnq is finite: the initial accepted_log_prob is neither NaN nor an
\* infinity.
StartsFromFinite ==
    (args.driver \in {"hybrid", "seq"} /\ pc = "loop" /\ last.op = "start") =>
        isfinite(loc.accepted_log_prob)

\* C20: for every steps >= 1 and save_every >= 1 the main loop of the neural
\* driver runs over exactly idx = 0 .. steps*save_every - 2: when the loop is
\* over, steps*save_every - 1 iterations were made.
NeuralLoopLength ==
    (args.driver = "neural" /\ last.op = "return" /\ last.outcome = "ok") =>
        loc.idx = args.steps * args.save_every - 1

\* exp(v) of a multiple v of ln 2, as a fraction <<numerator, denominator>>
ExpFrac(v) == IF v >= 0 THEN <<Pow2(v), 1>> ELSE <<1, Pow2(-v)>>

\* exp(lnq) of a log probability that is finite or -inf
ExpLnq(lnq) == IF lnq.tag = "ninf" THEN <<0, 1>> ELSE ExpFrac(lnq.val)

\* p/N + (1 - p) * e as a fraction, p = prob_single / 2 and e a fraction
MixFrac(prob_single, spins, e) ==
    <<prob_single * e[2] + (2 - prob_single) * spins * e[1], 2 * spins * e[2]>>

\* the number of sites where two configurations differ
Hamming(a, b) == Cardinality({i \in DOMAIN a : a[i] # b[i]})

\* exp of the log acceptance ratio of a trial against the accepted state l
HybridRatioFrac(l, trial_sample, trial_log_prob, trial_eng) ==
    LET trial_lnpi == -args.beta * trial_eng
        accepted_lnpi == -args.beta * l.accepted_eng
        w == ExpFrac(trial_lnpi - accepted_lnpi)
        rev == MixFrac(args.prob_single, 4, ExpLnq(l.accepted_log_prob))
        mov == MixFrac(args.prob_single, 4, ExpLnq(trial_log_prob))
    IN  IF Hamming(trial_sample, l.accepted_sample) = 1
        THEN <<w[1] * rev[1] * mov[2], w[2] * rev[2] * mov[1]>>
        ELSE ExpFrac(trial_lnpi - accepted_lnpi
                       + l.accepted_log_prob.val - trial_log_prob.val)

\* C21: in the hybrid driver the log acceptance ratio of a trial one spin away
\* from the accepted configuration is
\* trial_lnpi - accepted_lnpi + ln(p/N + (1-p)*exp(accepted_lnq))
\*                            - ln(p/N + (1-p)*exp(trial_lnq)), p = prob_single,
\* and trial_lnpi - accepted_lnpi + accepted_lnq - trial_lnq in every other
\* case; a single spin flip proposal is always one spin away.
HybridRatioAsSpecified ==
    [][(args.driver = "hybrid" /\ pc = "loop" /\ last'.op = "iter"
          /\ last'.outcome \in {"accept", "reject"}) =>
         LET e == HybridRatioFrac(loc, last'.trial_sample, last'.trial_log_prob,
                                  last'.trial_eng)
         IN  /\ last'.ratio.tag = "fin"
             /\ last'.ratio.num * e[2] = last'.ratio.den * e[1]
             /\ ~last'.neural => Hamming(last'.trial_sample, loc.accepted_sample) = 1]_vars

\* C21 witness: a neural proposal one spin away from the accepted configuration
\* was decided with 0 < prob_single < 1
HybridRatioAsSpecifiedSeen ==
    /\ args.driver = "hybrid"
    /\ args.prob_single = 1
    /\ pc = "loop"
    /\ last.op = "iter"
    /\ last.outcome \in {"accept", "reject"}
    /\ last.neural
    /\ last.apart
    /\ last.drew

\* C22: in the hybrid driver an iteration that reaches the accept/reject
\* decision appends one record, the accepted sample and energy after the
\* decision; an iteration that ends in `continue` or raises appends nothing, so
\* the raw record count is the number of iterations that were not skipped.
HybridEmitsWhenDecided ==
    /\ [][(args.driver = "hybrid" /\ pc = "loop" /\ last'.op = "iter") =>
            IF last'.outcome \in {"accept", "reject"}
            THEN /\ loc'.samples = Append(loc.samples, loc'.accepted_sample)
                 /\ loc'.energies = Append(loc.energies, loc'.accepted_eng)
            ELSE /\ loc'.samples = loc.samples
                 /\ loc'.energies = loc.energies]_vars
    /\ []((args.driver = "hybrid" /\ pc = "loop") =>
             /\ Len(loc.samples) = Len(loc.energies)
             /\ Len(loc.samples) <= loc.step)

\* C22 witness: an iteration was skipped after a record had been appended, and
\* the record count stayed behind the iteration count
HybridEmitsWhenDecidedSeen ==
    /\ args.driver = "hybrid"
    /\ pc = "loop"
    /\ last.op = "iter"
    /\ last.outcome = "skip"
    /\ Len(loc.samples) >= 1
    /\ Len(loc.samples) < loc.step

\* C22 as stated: every executed iteration, skipped ones included, appends a
\* record, so the raw record count equals the number of iterations executed
\* (for a chain started from a finite log probability)
HybridEmitsEveryIteration ==
    (args.driver = "hybrid" /\ pc = "loop" /\ isfinite(loc.accepted_log_prob)) =>
        Len(loc.samples) = loc.step

\* C23: the hybrid driver halts its loop once the iteration index has exceeded
\* MAX_STEPS, whether the iterations were normal or skipped: no iteration runs
\* after the first index above MAX_STEPS, so at most MAX_STEPS + 2 iterations
\* are executed (the claim allows MAX_STEPS at most).
StepLimitHolds ==
    (args.driver = "hybrid" /\ pc \in {"loop", "done"} /\ isfinite(loc.accepted_log_prob)) =>
        loc.step <= StepLimit(args) + 2

\* C24: in the sequential driver a step with a non-finite intermediate (the
\* trial's log probability, the accepted sample's log probability evaluated
\* again by the model, the trial energy, its Boltzmann log probability or the
\* log acceptance ratio, NaN included) never accepts its proposal: the
\* accepted sample and energy stay as they were.
SeqDiscardsNonFinite ==
    [][(args.driver = "seq" /\ pc = "loop" /\ last'.op = "iter"
          /\ (last'.outcome = "skip" \/ ~isfinite(last'.ratio))) =>
         /\ last'.outcome # "accept"
         /\ loc'.accepted_sample = loc.accepted_sample
         /\ loc'.accepted_eng = loc.accepted_eng]_vars

\* C25: in the hybrid and the sequential driver a neural step whose proposal
\* has a non-finite log probability is skipped and the stream advances: the
\* next neural step reads the following row of the prefetched arrays.
SkipAdvancesStream ==
    [][(args.driver \in {"hybrid", "seq"} /\ pc = "loop" /\ last'.op = "iter"
          /\ last'.neural /\ last'.outcome = "skip"
          /\ ~isfinite(last'.trial_log_prob)) =>
         loc'.steps_neural = loc.steps_neural + 1]_vars

\* the four lists of records of the exchange driver
ExchangeRecords(l) == <<l.samples_single, l.energies_single, l.samples_rbm, l.energies_rbm>>

\* chain A after the local attempt of the step that starts in state l
AfterAttempt(l, k, accept) == IF accept THEN Flip(l.sample_single, k) ELSE l.sample_single

ExchangeCompletes ==
    (args.driver = "exchange" /\ last.op = "iter" /\ ~last.warm) => pc = "loop"

\* C28: in the exchange driver the cached energy of the local chain is always
\* the energy of its current +-1 configuration, after accepted flips, warm-up
\* steps and accepted swaps; an accepted swap leaves each chain with the other's
\* configuration (converted between {0,1} and +-1) and energy, and every
\* emitted (sample, energy) pair of the local chain is consistent.
ExchangeEnergyConsistent ==
    (args.driver = "exchange" /\ Started) =>
        /\ loc.eng_single = EnergyOf(loc.sample_single)
        /\ \A n \in 1..Len(loc.samples_single) :
              loc.energies_single[n] = EnergyOf(loc.samples_single[n])
        /\ Len(loc.energies_single) = Len(loc.samples_single)
        /\ (last.op = "iter" /\ last.swapped) =>
              loc.eng_rbm = EnergyOf(ToSpin(loc.sample_rbm))

\* C28 witness: after an accepted flip the two chains, of different energies,
\* were swapped, and a record of the local chain had been emitted
ExchangeEnergyConsistentSeen ==
    /\ args.driver = "exchange"
    /\ pc = "loop"
    /\ last.op = "iter"
    /\ last.swapped
    /\ last.accept
    /\ loc.eng_single # loc.eng_rbm
    /\ Len(loc.energies_single) >= 1

\* C29: in the hybrid and the sequential driver, after the start and after
\* every iteration, accepted = accepted_single + accepted_neural,
\* accepted_neural <= steps_neural, accepted_single <= steps_single and
\* neural_after_single <= accepted_single; neural_after_single grows by one
\* exactly when a neural proposal is accepted and the accepted proposal before
\* it was a single spin flip.
CountersConsistent ==
    /\ []((args.driver \in {"hybrid", "seq"} /\ Started) =>
             /\ loc.accepted = loc.accepted_single + loc.accepted_neural
             /\ loc.accepted_neural <= loc.steps_neural
             /\ loc.accepted_single <= loc.steps_single
             /\ loc.neural_after_single <= loc.accepted_single)
    /\ [][(args.driver \in {"hybrid", "seq"} /\ pc = "loop" /\ last'.op = "iter") =>
            LET took == last'.outcome = "accept"
            IN  /\ loc'.neural_after_single = loc.neural_after_single
                     + (IF took /\ last'.neural /\ loc.type_accepted = "single"
                        THEN 1 ELSE 0)
                /\ loc'.type_accepted = IF took
                                        THEN (IF last'.neural THEN "neural" ELSE "single")
                                        ELSE loc.type_accepted
                /\ loc'.accepted_neural = loc.accepted_neural
                     + (IF took /\ last'.neural THEN 1 ELSE 0)
                /\ loc'.accepted_single = loc.accepted_single
                     + (IF took /\ ~last'.neural THEN 1 ELSE 0)]_vars

\* C29 witness: a neural proposal was accepted right after an accepted single
\* spin flip
CountersConsistentSeen ==
    /\ args.driver \in {"hybrid", "seq"}
    /\ pc = "loop"
    /\ last.op = "iter"
    /\ last.outcome = "accept"
    /\ last.neural
    /\ loc.neural_after_single >= 1
    /\ loc.accepted_neural >= 2
    /\ loc.accepted_single >= 1

\* C30: given prefetched arrays of exactly the length the driver asks for, the
\* neural and the sequential driver never read a row at or beyond the end of
\* the arrays, whatever steps, save_every, len_seq_single and the skips are, and
\* the index they read never goes back: idx + 1 in the neural driver grows by
\* one per completed iteration, steps_neural in the sequential driver never
\* decreases.
ReadsWithinPrefetch ==
    /\ []((args.driver \in {"neural", "seq"}) =>
             /\ Len(proposals) <= NumProposals(args)
             /\ (pc = "crashed" /\ last.op = "iter") =>
                   last.outcome # "IndexError_proposals")
    /\ [][(args.driver = "neural" /\ pc = "loop" /\ last'.op = "iter") =>
            /\ loc.idx + 1 < NumProposals(args)
            /\ last'.trial = proposals'[loc.idx + 2]
            /\ pc' = "loop" => loc'.idx = loc.idx + 1]_vars
    /\ [][(args.driver = "seq" /\ pc = "loop" /\ last'.op = "iter" /\ last'.neural) =>
            /\ loc.steps_neural < NumProposals(args)
            /\ last'.trial_sample = proposals'[loc.steps_neural + 1].sample
            /\ loc'.steps_neural \in {loc.steps_neural, loc.steps_neural + 1}]_vars

\* C30 witness: the sequential driver has finished its loop and has read the
\* last row of the prefetched arrays
ReadsWithinPrefetchSeen ==
    /\ args.driver = "seq"
    /\ pc = "loop"
    /\ loc.step = TotalSteps(args) - 1
    /\ last.op = "iter"
    /\ last.neural
    /\ Len(proposals) = NumProposals(args)
    /\ loc.steps_neural = NumProposals(args)

====
